---- MODULE Spec2Model ----
(***************************************************************************)
(* Recording engine of Screen_Recorder_GUI (src/recording/recorder.py),    *)
(* with the parts of FFmpegEncoder (src/recording/encoder.py) and          *)
(* AudioCapture (src/recording/audio_capture.py) it drives.                *)
(*                                                                         *)
(* One caller thread issues start/pause/resume/stop (the GUI thread,       *)
(* src/gui/main_window.py:505-529); every session spawns one timing-loop   *)
(* thread (Recorder._recording_loop).  The loop is modelled statement by   *)
(* statement so that the caller's writes interleave with it.               *)
(*                                                                         *)
(* Time is an integer tick counter; TicksPerSecond ticks make one second,  *)
(* so int(elapsed * fps) is Trunc(ticks * Fps, TicksPerSecond).            *)
(*                                                                         *)
(* The environment (devices, files, the encoder child, the screen grab)    *)
(* may fail wherever the code provides for it; a behaviour holds at most   *)
(* MaxFaults such failures.                                                *)
(***************************************************************************)
EXTENDS Integers, Sequences, FiniteSets, TLC

\* ------------------------------------------------------------------ bounds
MaxTime == 2            \* the clock stops advancing here
TicksPerSecond == 2     \* clock resolution
MaxChunks == 1          \* audio chunks the capture callbacks deliver per session
MaxFaults == 2          \* environment failures per behaviour

\* ------------------------------------------------------- program constants
Fps == 3                \* Recorder.fps
QueueMaxSize == 50      \* queue.Queue(maxsize=50)
DrainMax == 5           \* while len(audio_chunks) < 5
WavHeaderBytes == 44    \* header written by wave.Wave_write
ChunkBytes == 19200     \* CHUNK_SIZE frames * CHANNELS * SAMPLE_WIDTH
NoiseFloor == 100       \* os.path.getsize(temp_audio_path) > 100

IDLE == "idle"
RECORDING == "recording"
PAUSED == "paused"
RecordingState == {IDLE, RECORDING, PAUSED}

NoTime == -1            \* Python None in a timestamp field

VARIABLES
    now,                    \* time.time(), in ticks
    state,                  \* Recorder.state
    start_time,             \* Recorder.start_time
    pause_time,             \* Recorder.pause_time
    total_pause_duration,   \* Recorder.total_pause_duration
    frames_recorded,        \* Recorder.frames_recorded
    audio_chunks_recorded,  \* Recorder.audio_chunks_recorded
    last_frame,             \* Recorder._last_frame (0 for None)
    encoder,                \* Recorder.encoder (an FFmpegEncoder or None)
    wave_file,              \* Recorder.wave_file (a Wave_write or None)
    temp_video_path,        \* Recorder.temp_video_path
    temp_audio_path,        \* Recorder.temp_audio_path
    recording_thread,       \* Recorder.recording_thread (thread id, 0 for None)
    audio_capture,          \* the AudioCapture object
    audio_queue,            \* AudioCapture.audio_queue
    files,                  \* the file system: path -> content
    threads,                \* timing-loop threads: id -> locals and position
    call,                   \* the caller thread: call in progress, or the last call
    faults,                 \* environment failures so far
    callbacks,              \* the capture callbacks' threads: source -> position
    progress,               \* the durations passed to Recorder.on_progress so far
    video_capture,          \* the VideoCapture object
    ffmpeg,                 \* FFmpegEncoder.process: the child and its stdin pipe
    writer,                 \* the thread inside FFmpegEncoder.write_video_frame
    stopper,                \* the thread inside FFmpegEncoder.stop_encoding
    mixer                   \* the audio step of the loop: samples mixed and written

\* The encoder's child process and the calls in progress on the encoder.
encoding == <<ffmpeg, writer, stopper>>

vars == <<now, state, start_time, pause_time, total_pause_duration,
          frames_recorded, audio_chunks_recorded, last_frame, encoder,
          wave_file, temp_video_path, temp_audio_path, recording_thread,
          audio_capture, audio_queue, files, threads, call, faults,
          callbacks, progress, video_capture, encoding, mixer>>

\* The fields of the recording session.
session == <<state, start_time, pause_time, total_pause_duration,
             frames_recorded, audio_chunks_recorded>>

\* What start_recording() allocates and stop_recording() releases.
resources == <<encoder, wave_file, temp_video_path, temp_audio_path,
               recording_thread, audio_capture, files, threads>>

\* ------------------------------------------------------------------ helpers
\* Python int(): truncation toward zero of n/d, d > 0.
Trunc(n, d) == IF n >= 0 THEN n \div d ELSE -((-n) \div d)

\* Python truthiness of a timestamp field: None and 0.0 are false.
Truthy(t) == t # NoTime /\ t # 0

Max(a, b) == IF a >= b THEN a ELSE b
Min(a, b) == IF a <= b THEN a ELSE b

\* One failure for an input that is not the good case.
Cost(bad) == IF bad THEN 1 ELSE 0

\* ------------------------------------------------------------- file system
NoPath == <<"none", 0>>
OutputPath == <<"output", 0>>                \* Recorder.output_path
TempVideoPath(ts) == <<"temp_video", ts>>    \* .temp_video_{timestamp}.mp4
TempAudioPath(ts) == <<"temp_audio", ts>>    \* .temp_audio_{timestamp}.wav
TempPaths == {p \in DOMAIN files : p[1] \in {"temp_video", "temp_audio"}}

\* int(time.time())
Timestamp == now \div TicksPerSecond

\* A file's content: what wrote it ("video", "wav", "merged", "partial"), the
\* time its session started and, for a waveform file, its size in bytes.
Content(kind, id, n) == [kind |-> kind, id |-> id, n |-> n]
\* os.remove, and the source side of os.rename
Remove(fs, path) == [p \in (DOMAIN fs) \ {path} |-> fs[p]]
\* create or overwrite
Put(fs, path, c) == [p \in (DOMAIN fs) \cup {path} |-> IF p = path THEN c ELSE fs[p]]
\* os.path.getsize
GetSize(fs, path) == fs[path].n

\* ------------------------------------------------------------ FFmpegEncoder
\* Recorder.encoder: obj is FALSE for None.  process is "none" (self.process is
\* None), "running" (child alive, stdin pipe open) or "exited" (the child has
\* exited on its own: the pipe is broken).
NoEncoder == [obj |-> FALSE, is_encoding |-> FALSE, process |-> "none",
              output_path |-> NoPath]

\* An encoder that is pointed at the final output path whatever it is given.
NewEncoder_AtOutput(path) ==
    [obj |-> TRUE, is_encoding |-> FALSE, process |-> "none",
     output_path |-> OutputPath]

\* FFmpegEncoder.__init__ after _find_ffmpeg() found the executable.
NewEncoder(path) == [obj |-> TRUE, is_encoding |-> FALSE, process |-> "none",
                     output_path |-> path]

\* FFmpegEncoder.start_encoding when Popen succeeds.
StartedEncoder(enc) == [enc EXCEPT !.is_encoding = TRUE, !.process = "running"]

\* FFmpegEncoder.write_video_frame: the value returned for a frame of the
\* configured size.
WriteVideoFrameResult(enc) ==
    IF ~enc.is_encoding \/ enc.process = "none" THEN FALSE
    ELSE enc.process = "running"

\* ------------------------------------------------------------ AudioCapture
\* start_capture that gives up both channels when one device fails.
StartCapture_AllOrNothing(ac, sysOpens, micOpens) ==
    IF ac.is_capturing THEN ac
    ELSE LET opens == (ac.system_audio_enabled => sysOpens)
                      /\ (ac.microphone_enabled => micOpens)
         IN [ac EXCEPT
               !.system_stream = ac.system_audio_enabled /\ opens,
               !.system_audio_enabled = ac.system_audio_enabled /\ opens,
               !.microphone_stream = ac.microphone_enabled /\ opens,
               !.microphone_enabled = ac.microphone_enabled /\ opens,
               !.is_capturing = TRUE]

\* AudioCapture.start_capture: a channel whose device cannot be opened is
\* switched off; the call itself succeeds.
StartCapture(ac, sysOpens, micOpens) ==
    IF ac.is_capturing THEN ac
    ELSE [ac EXCEPT
            !.system_stream = ac.system_audio_enabled /\ sysOpens,
            !.system_audio_enabled = ac.system_audio_enabled /\ sysOpens,
            !.microphone_stream = ac.microphone_enabled /\ micOpens,
            !.microphone_enabled = ac.microphone_enabled /\ micOpens,
            !.is_capturing = TRUE]

\* AudioCapture.stop_capture: both streams are closed; the queue is left alone.
StopCapture(ac) ==
    [ac EXCEPT !.is_capturing = FALSE, !.system_stream = FALSE,
               !.microphone_stream = FALSE]

\* put_nowait with the drop-oldest fallback of the capture callbacks.
Enqueue(q, chunk) ==
    IF Len(q) < QueueMaxSize THEN Append(q, chunk)
    ELSE Append(Tail(q), chunk)

\* ------------------------------------------------------------ wave.Wave_write
NoWave == [obj |-> FALSE, path |-> NoPath]

\* writeframes: the header goes out with the first data.
WaveWrite(fs, path) ==
    IF path \in DOMAIN fs
    THEN [fs EXCEPT ![path].n = (IF @ = 0 THEN WavHeaderBytes ELSE @) + ChunkBytes]
    ELSE fs

\* close: a file without data still gets its header.
WaveClose(fs, path) ==
    IF path \in DOMAIN fs
    THEN [fs EXCEPT ![path].n = IF @ = 0 THEN WavHeaderBytes ELSE @]
    ELSE fs

\* ------------------------------------------------------------- the caller
\* call.pc is "ret" between calls and "join" while stop_recording() waits for
\* the timing loop.  The other fields describe the last call: the state it was
\* entered in, its return value, the states passed to on_state_changed, the
\* branch it took, and the time it was entered at.
Returned(op, from, result, notified, outcome) ==
    [op |-> op, pc |-> "ret", from |-> from, result |-> result,
     notified |-> notified, outcome |-> outcome, at |-> now]

\* ------------------------------------------------------------ timing loop
FreeThread == [pc |-> "free", current_time |-> 0, frames_needed |-> 0, write_frame |-> 0]
At(pc) == [FreeThread EXCEPT !.pc = pc]
\* Only a join timeout leaves a thread behind: MaxFaults + 1 slots never run out.
ThreadIds == 1..(MaxFaults + 1)
FreeIds == {t \in ThreadIds : threads[t].pc = "free"}
NewThreadId == CHOOSE t \in FreeIds : \A u \in FreeIds : t <= u

\* ------------------------------------------------------ capture callbacks
\* The two streams, each with its own callback thread.
Sources == {"system", "microphone"}
\* A callback thread between two invocations: n counts its invocations so
\* far, last tells how the latest one went ("full" while it is in the
\* fallback of a queue it found full).
IdleCallback == [pc |-> "idle", chunk |-> <<>>, n |-> 0, last |-> "none"]

\* ------------------------------------------------------------- VideoCapture
\* sct.monitors[1], the primary monitor.
MonitorWidth == 2
MonitorHeight == 1
Monitor == [top |-> 0, left |-> 0, width |-> MonitorWidth, height |-> MonitorHeight]

\* Python None in VideoCapture.region.
NoRegion == <<>>

\* VideoCapture() with its default arguments: the primary monitor.
FullScreenCapture ==
    [mode |-> "full_screen", region |-> NoRegion, window_handle |-> 0,
     capture_rect |-> Monitor]

\* -------------------------------------------------- the encoder's child process
NoCode == -100          \* Python None in Popen.returncode

\* FFmpegEncoder.process before start_encoding(): no child.
NoProcess == [status |-> "none", stdin |-> "closed", returncode |-> NoCode,
              received |-> 0, terminated |-> FALSE]

\* Python None for a frame.
NoFrame == <<>>

\* No call of write_video_frame is in progress; calls and trues count the
\* calls made and the calls that returned True, result and sent describe the
\* last call: its return value and the bytes it wrote to the pipe.
IdleWriter == [pc |-> "idle", frame |-> NoFrame, result |-> FALSE, sent |-> 0,
               calls |-> 0, trues |-> 0]

\* No call of stop_encoding is in progress; timeouts counts the waits that
\* timed out in the last call.
IdleStopper == [pc |-> "idle", result |-> TRUE, calls |-> 0, timeouts |-> 0]

\* Nothing has been dequeued yet: audio_chunks and mixed are the chunks and the
\* mixed block of the latest audio step, written the samples appended to the
\* waveform file so far, taken the number of chunks removed from the queue.
IdleMixer == [audio_chunks |-> <<>>, mixed |-> <<>>, written |-> <<>>, taken |-> 0]

\* ---------------------------------------------------------------- clock
Tick ==
    /\ now < MaxTime
    /\ now' = now + 1
    /\ UNCHANGED <<session, last_frame, resources, audio_queue, call, faults,
                   callbacks, progress, video_capture, encoding, mixer>>

\* ------------------------------------------------- environment of the engine
\* _system_audio_callback / _microphone_callback, run by the stream's thread
\* while the stream is open.  The chunk is recorded with its source and, in
\* the place of its timestamp, whether the engine was Paused when it was
\* captured.
AudioCallback(source) ==
    /\ IF source = "system" THEN audio_capture.system_stream
                            ELSE audio_capture.microphone_stream
    /\ audio_chunks_recorded + Len(audio_queue) < MaxChunks
    /\ audio_queue' = IF audio_capture.is_capturing
                      THEN Enqueue(audio_queue, <<source, state = PAUSED>>)
                      ELSE audio_queue
    /\ UNCHANGED <<now, session, last_frame, resources, call, faults,
                   callbacks, progress, video_capture, encoding, mixer>>

\* The encoder child exits on its own (a crash): its pipe is now broken.
EncoderExits ==
    /\ encoder.obj
    /\ encoder.process = "running"
    /\ faults < MaxFaults
    /\ faults' = faults + 1
    /\ encoder' = [encoder EXCEPT !.process = "exited"]
    /\ UNCHANGED <<now, session, last_frame, wave_file, temp_video_path,
                   temp_audio_path, recording_thread, audio_capture,
                   audio_queue, files, threads, call, callbacks, progress, video_capture, encoding, mixer>>

\* ------------------------------------------------------- pause and resume
\* pause_recording without the check of line 258.
pause_recording_Unguarded ==
    /\ call.pc = "ret"
    /\ state' = PAUSED
    /\ pause_time' = now
    /\ call' = Returned("pause", state, TRUE, <<PAUSED>>, "paused")
    /\ UNCHANGED <<now, start_time, total_pause_duration, frames_recorded,
                   audio_chunks_recorded, last_frame, resources, audio_queue, faults,
                   callbacks, progress, video_capture, encoding, mixer>>

\* pause_recording without the callback of lines 264-265.
pause_recording_Silent ==
    /\ call.pc = "ret"
    /\ IF state # RECORDING
       THEN /\ call' = Returned("pause", state, FALSE, <<>>, "rejected")
            /\ UNCHANGED <<state, pause_time>>
       ELSE /\ state' = PAUSED
            /\ pause_time' = now
            /\ call' = Returned("pause", state, TRUE, <<>>, "paused")
    /\ UNCHANGED <<now, start_time, total_pause_duration, frames_recorded,
                   audio_chunks_recorded, last_frame, resources, audio_queue,
                   faults, callbacks, progress, video_capture, encoding, mixer>>

\* pause_recording that also closes the waveform file.
pause_recording_ClosesWave ==
    /\ call.pc = "ret"
    /\ IF state # RECORDING
       THEN /\ call' = Returned("pause", state, FALSE, <<>>, "rejected")
            /\ UNCHANGED <<state, pause_time, wave_file>>
       ELSE /\ state' = PAUSED
            /\ pause_time' = now
            /\ wave_file' = NoWave
            /\ call' = Returned("pause", state, TRUE, <<PAUSED>>, "paused")
    /\ UNCHANGED <<now, start_time, total_pause_duration, frames_recorded,
                   audio_chunks_recorded, last_frame, encoder, temp_video_path,
                   temp_audio_path, recording_thread, audio_capture, files,
                   threads, audio_queue, faults, callbacks, progress,
                   video_capture, encoding, mixer>>

\* Recorder.pause_recording.  The timing loop reads neither pause_time nor the
\* callback slot, so the assignments are one step.
pause_recording ==
    /\ call.pc = "ret"
    /\ IF state # RECORDING
       THEN /\ call' = Returned("pause", state, FALSE, <<>>, "rejected")
            /\ UNCHANGED <<state, pause_time>>
       ELSE /\ state' = PAUSED
            /\ pause_time' = now
            /\ call' = Returned("pause", state, TRUE, <<PAUSED>>, "paused")
    /\ UNCHANGED <<now, start_time, total_pause_duration, frames_recorded,
                   audio_chunks_recorded, last_frame, resources, audio_queue, faults,
                   callbacks, progress, video_capture, encoding, mixer>>

\* resume_recording that refuses an invalid state but still notifies.
resume_recording_Notifies ==
    /\ call.pc = "ret"
    /\ IF state # PAUSED
       THEN /\ call' = Returned("resume", state, FALSE, <<state>>, "rejected")
            /\ UNCHANGED <<state, pause_time, total_pause_duration>>
       ELSE /\ total_pause_duration' = total_pause_duration + (now - pause_time)
            /\ pause_time' = NoTime
            /\ state' = RECORDING
            /\ call' = Returned("resume", state, TRUE, <<RECORDING>>, "resumed")
    /\ UNCHANGED <<now, start_time, frames_recorded, audio_chunks_recorded,
                   last_frame, resources, audio_queue, faults,
                   callbacks, progress, video_capture, encoding, mixer>>

\* resume_recording that forgets to account for the paused span.
resume_recording_DropsSpan ==
    /\ call.pc = "ret"
    /\ IF state # PAUSED
       THEN /\ call' = Returned("resume", state, FALSE, <<>>, "rejected")
            /\ UNCHANGED <<state, pause_time>>
       ELSE /\ pause_time' = NoTime
            /\ state' = RECORDING
            /\ call' = Returned("resume", state, TRUE, <<RECORDING>>, "resumed")
    /\ UNCHANGED <<now, start_time, total_pause_duration, frames_recorded,
                   audio_chunks_recorded, last_frame, resources, audio_queue,
                   faults, callbacks, progress, video_capture, encoding, mixer>>

\* Recorder.resume_recording.
resume_recording ==
    /\ call.pc = "ret"
    /\ IF state # PAUSED
       THEN /\ call' = Returned("resume", state, FALSE, <<>>, "rejected")
            /\ UNCHANGED <<state, pause_time, total_pause_duration>>
       ELSE /\ IF Truthy(pause_time)
               THEN /\ total_pause_duration' = total_pause_duration + (now - pause_time)
                    /\ pause_time' = NoTime
               ELSE UNCHANGED <<pause_time, total_pause_duration>>
            /\ state' = RECORDING
            /\ call' = Returned("resume", state, TRUE, <<RECORDING>>, "resumed")
    /\ UNCHANGED <<now, start_time, frames_recorded, audio_chunks_recorded,
                   last_frame, resources, audio_queue, faults,
                   callbacks, progress, video_capture, encoding, mixer>>

\* ---------------------------------------------------------- start_recording
\* encoderSetup: "missing" (_find_ffmpeg() finds nothing and __init__ raises),
\* "launch_failed" (Popen raises and start_encoding() returns False), "no_file"
\* (the child starts but never creates its output file) or "ok".
EncoderSetups == {"missing", "launch_failed", "no_file", "ok"}

\* Lines 112-123 without the reset of line 122.
SetupAudioFile_KeepsPath(audio_enabled, waveOpens) ==
    IF ~audio_enabled THEN <<temp_audio_path, wave_file, files>>
    ELSE IF waveOpens
         THEN <<TempAudioPath(Timestamp),
                [obj |-> TRUE, path |-> TempAudioPath(Timestamp)],
                Put(files, TempAudioPath(Timestamp), Content("wav", now, 0))>>
         ELSE <<TempAudioPath(Timestamp), NoWave, files>>

\* Lines 112-123: the waveform file.  <<temp_audio_path, wave_file, files>>.
SetupAudioFile(audio_enabled, waveOpens) ==
    IF ~audio_enabled THEN <<temp_audio_path, wave_file, files>>
    ELSE IF waveOpens
         THEN <<TempAudioPath(Timestamp),
                [obj |-> TRUE, path |-> TempAudioPath(Timestamp)],
                Put(files, TempAudioPath(Timestamp), Content("wav", now, 0))>>
         ELSE <<NoPath, NoWave, files>>

\* A refused start that still clears the counters of lines 149-150.
StartRejected_Resets ==
    /\ state # IDLE
    /\ call' = Returned("start", state, FALSE, <<>>, "rejected")
    /\ frames_recorded' = 0
    /\ audio_chunks_recorded' = 0
    /\ UNCHANGED <<state, start_time, pause_time, total_pause_duration,
                   last_frame, resources, faults>>

\* Lines 93-94: the call is refused unless the engine is idle.
StartRejected ==
    /\ state # IDLE
    /\ call' = Returned("start", state, FALSE, <<>>, "rejected")
    /\ UNCHANGED <<session, last_frame, resources, faults>>

\* Lines 100-164, entered in state IDLE.
StartFromIdle(encoderSetup, waveOpens, sysOpens, micOpens) ==
    LET audio_enabled == audio_capture.system_audio_enabled
                         \/ audio_capture.microphone_enabled
        audio == SetupAudioFile(audio_enabled, waveOpens)
        videoPath == TempVideoPath(Timestamp)
        launched == encoderSetup \in {"no_file", "ok"}
        cost == Cost(encoderSetup # "ok") + Cost(~waveOpens)
                + Cost(~sysOpens) + Cost(~micOpens)
    IN  /\ state = IDLE
        \* an input the call does not consult stays at its good value
        /\ waveOpens \/ audio_enabled
        /\ sysOpens \/ (launched /\ audio_capture.system_audio_enabled
                                 /\ ~audio_capture.is_capturing)
        /\ micOpens \/ (launched /\ audio_capture.microphone_enabled
                                 /\ ~audio_capture.is_capturing)
        /\ faults + cost <= MaxFaults
        /\ faults' = faults + cost
        /\ temp_video_path' = videoPath
        /\ temp_audio_path' = audio[1]
        /\ wave_file' = audio[2]
        /\ IF encoderSetup = "missing"
           THEN \* line 47 raises; the handler at line 163 calls stop_recording(),
                \* which returns at line 174 because the state is still IDLE
                /\ call' = Returned("start", state, FALSE, <<>>, "encoder_missing")
                /\ files' = audio[3]
                /\ UNCHANGED <<session, last_frame, encoder, recording_thread,
                               audio_capture, threads>>
           ELSE IF encoderSetup = "launch_failed"
           THEN \* lines 136-138
                /\ encoder' = NewEncoder(videoPath)
                /\ call' = Returned("start", state, FALSE, <<>>, "launch_failed")
                /\ files' = audio[3]
                /\ UNCHANGED <<session, last_frame, recording_thread,
                               audio_capture, threads>>
           ELSE /\ encoder' = StartedEncoder(NewEncoder(videoPath))
                /\ files' = IF encoderSetup = "ok"
                            THEN Put(audio[3], videoPath, Content("video", now, 0))
                            ELSE audio[3]
                /\ audio_capture' = StartCapture(audio_capture, sysOpens, micOpens)
                /\ state' = RECORDING
                /\ start_time' = now
                /\ total_pause_duration' = 0
                /\ frames_recorded' = 0
                /\ audio_chunks_recorded' = 0
                /\ last_frame' = 0
                /\ recording_thread' = NewThreadId
                /\ threads' = [threads EXCEPT ![NewThreadId] = At("L294")]
                /\ call' = Returned("start", state, TRUE, <<RECORDING>>, "started")
                /\ UNCHANGED pause_time

\* Recorder.start_recording.  The thread of the new session starts at line
\* 154, after every assignment, so the call is one step.
start_recording(encoderSetup, waveOpens, sysOpens, micOpens) ==
    /\ call.pc = "ret"
    /\ \/ /\ StartRejected
          /\ encoderSetup = "ok" /\ waveOpens /\ sysOpens /\ micOpens
       \/ StartFromIdle(encoderSetup, waveOpens, sysOpens, micOpens)
    /\ UNCHANGED <<now, audio_queue, callbacks, progress, video_capture, encoding, mixer>>

\* ----------------------------------------------------------- stop_recording
\* stop_recording whose early return reports failure.
StopBegin_IdleFails ==
    /\ call.pc = "ret"
    /\ IF state = IDLE
       THEN /\ call' = Returned("stop", state, FALSE, <<>>, "idle")
            /\ UNCHANGED state
       ELSE /\ state' = IDLE
            /\ call' = [op |-> "stop", pc |-> "join", from |-> state,
                        result |-> FALSE, notified |-> <<>>, outcome |-> "joining",
                        at |-> now]
    /\ UNCHANGED <<now, start_time, pause_time, total_pause_duration,
                   frames_recorded, audio_chunks_recorded, last_frame,
                   resources, audio_queue, faults,
                   callbacks, progress, video_capture, encoding, mixer>>

\* Lines 173-177: the early return, or the signal to the timing loop.
StopBegin ==
    /\ call.pc = "ret"
    /\ IF state = IDLE
       THEN /\ call' = Returned("stop", state, TRUE, <<>>, "idle")
            /\ UNCHANGED state
       ELSE /\ state' = IDLE
            /\ call' = [op |-> "stop", pc |-> "join", from |-> state,
                        result |-> FALSE, notified |-> <<>>, outcome |-> "joining",
                        at |-> now]
    /\ UNCHANGED <<now, start_time, pause_time, total_pause_duration,
                   frames_recorded, audio_chunks_recorded, last_frame,
                   resources, audio_queue, faults,
                   callbacks, progress, video_capture, encoding, mixer>>

\* Statements of the loop that can block for longer than the join timeout:
\* the screen grab and the write into the encoder's pipe.
Blocking == {"L311", "L333"}

\* join(timeout=5.0), lines 180-182.
JoinTimesOut ==
    /\ recording_thread # 0
    /\ threads[recording_thread].pc \in Blocking
JoinReturns ==
    \/ recording_thread = 0
    \/ recording_thread # 0 /\ threads[recording_thread].pc = "free"
    \/ JoinTimesOut

\* FFmpegEncoder.merge_audio_video: "ok", or a failure that wrote nothing
\* ("fail_clean") or left a partial file at the output path ("fail_partial").
MergeResults == {"ok", "fail_clean", "fail_partial"}
MergeAudioVideo(fs, video, mergeResult) ==
    IF mergeResult = "ok"
    THEN Put(fs, OutputPath, Content("merged", fs[video].id, 0))
    ELSE IF mergeResult = "fail_partial"
    THEN Put(fs, OutputPath, Content("partial", fs[video].id, 0))
    ELSE fs

\* A move that leaves a file it finds at the output path in place.
MoveVideo_KeepsExisting(fs, video, raiseAt) ==
    IF OutputPath \in DOMAIN fs THEN fs
    ELSE Remove(Put(fs, OutputPath, fs[video]), video)

\* Lines 213-215 and 220-222: os.remove of an existing output, then os.rename.
\* raiseAt names the call that raises OSError, if any.
RaiseAts == {"none", "remove", "rename"}
MoveRaises(fs, raiseAt) ==
    \/ raiseAt = "remove" /\ OutputPath \in DOMAIN fs
    \/ raiseAt = "rename"
MoveVideo(fs, video, raiseAt) ==
    IF raiseAt = "remove" /\ OutputPath \in DOMAIN fs THEN fs
    ELSE IF raiseAt = "rename" THEN Remove(fs, OutputPath)
    ELSE Remove(Put(fs, OutputPath, fs[video]), video)

\* Line 207 without the size test: any waveform file counts as audio.
AudioUsable_AnySize(fs) ==
    /\ temp_audio_path # NoPath
    /\ temp_audio_path \in DOMAIN fs

\* Lines 206-207: the conditions of the finalize branches.
VideoExists(fs) == temp_video_path # NoPath /\ temp_video_path \in DOMAIN fs
AudioUsable(fs) ==
    /\ temp_audio_path # NoPath
    /\ temp_audio_path \in DOMAIN fs
    /\ GetSize(fs, temp_audio_path) > NoiseFloor

\* A finally block that forgets the waveform file.
Cleanup_VideoOnly(fs) == Remove(fs, temp_video_path)

\* Lines 232-241: the finally block.
Cleanup(fs) == Remove(Remove(fs, temp_video_path), temp_audio_path)

\* Finalize without line 216: a fallback that went through counts as success.
Finalize_FallbackSucceeds(fs, mergeResult, raiseAt) ==
    IF ~VideoExists(fs)
    THEN [files |-> Cleanup(fs), success |-> FALSE, outcome |-> "video_missing"]
    ELSE IF AudioUsable(fs)
    THEN IF mergeResult = "ok"
         THEN [files |-> Cleanup(MergeAudioVideo(fs, temp_video_path, mergeResult)),
               success |-> TRUE, outcome |-> "merged"]
         ELSE LET merged == MergeAudioVideo(fs, temp_video_path, mergeResult)
              IN [files |-> Cleanup(MoveVideo(merged, temp_video_path, raiseAt)),
                  success |-> ~MoveRaises(merged, raiseAt),
                  outcome |-> IF MoveRaises(merged, raiseAt)
                              THEN "fallback_raised" ELSE "fallback"]
    ELSE [files |-> Cleanup(MoveVideo(fs, temp_video_path, raiseAt)),
          success |-> ~MoveRaises(fs, raiseAt),
          outcome |-> IF MoveRaises(fs, raiseAt)
                      THEN "video_only_raised" ELSE "video_only"]

\* Lines 203-244: files afterwards, the value of success, and the branch taken.
Finalize(fs, mergeResult, raiseAt) ==
    IF ~VideoExists(fs)
    THEN [files |-> Cleanup(fs), success |-> FALSE, outcome |-> "video_missing"]
    ELSE IF AudioUsable(fs)
    THEN IF mergeResult = "ok"
         THEN [files |-> Cleanup(MergeAudioVideo(fs, temp_video_path, mergeResult)),
               success |-> TRUE, outcome |-> "merged"]
         ELSE LET merged == MergeAudioVideo(fs, temp_video_path, mergeResult)
              IN [files |-> Cleanup(MoveVideo(merged, temp_video_path, raiseAt)),
                  success |-> FALSE,
                  outcome |-> IF MoveRaises(merged, raiseAt)
                              THEN "fallback_raised" ELSE "fallback"]
    ELSE [files |-> Cleanup(MoveVideo(fs, temp_video_path, raiseAt)),
          success |-> ~MoveRaises(fs, raiseAt),
          outcome |-> IF MoveRaises(fs, raiseAt)
                      THEN "video_only_raised" ELSE "video_only"]

\* The inputs finalize consults: an input it does not consult stays at its
\* good value.
FinalizeConsults(fs, mergeResult, raiseAt) ==
    /\ mergeResult = "ok" \/ (VideoExists(fs) /\ AudioUsable(fs))
    /\ raiseAt = "none"
       \/ /\ VideoExists(fs)
          /\ ~(AudioUsable(fs) /\ mergeResult = "ok")
          /\ MoveRaises(MergeAudioVideo(fs, temp_video_path,
                            IF AudioUsable(fs) THEN mergeResult ELSE "fail_clean"),
                        raiseAt)

\* Lines 180-249: the join returns, the resources are released, the recording
\* is finalized and the caller is notified.
StopFinish(mergeResult, raiseAt) ==
    LET closed == IF wave_file.obj THEN WaveClose(files, wave_file.path) ELSE files
        fin == Finalize(closed, mergeResult, raiseAt)
        cost == Cost(JoinTimesOut) + Cost(mergeResult # "ok") + Cost(raiseAt # "none")
    IN  /\ call.pc = "join"
        /\ JoinReturns
        /\ FinalizeConsults(closed, mergeResult, raiseAt)
        /\ faults + cost <= MaxFaults
        /\ faults' = faults + cost
        /\ recording_thread' = 0
        /\ encoder' = NoEncoder
        /\ audio_capture' = StopCapture(audio_capture)
        /\ wave_file' = NoWave
        /\ files' = fin.files
        /\ temp_video_path' = NoPath
        /\ temp_audio_path' = NoPath
        /\ call' = [Returned("stop", call.from, fin.success, <<IDLE>>, fin.outcome)
                        EXCEPT !.at = call.at]
        /\ UNCHANGED <<now, session, last_frame, audio_queue, threads, callbacks, progress, video_capture, encoding, mixer>>

\* ----------------------------------------------- Recorder._recording_loop
\* One action per statement that reads or writes a shared field; the label is
\* the line of recorder.py the thread is about to execute.
Goto(t, pc) == threads' = [threads EXCEPT ![t] = At(pc)]

\* int(elapsed * self.fps), lines 303-304.
ExpectedFrames(current_time) ==
    Trunc((current_time - start_time - total_pause_duration) * Fps, TicksPerSecond)

\* while self.state != RecordingState.IDLE
L294(t) ==
    /\ threads[t].pc = "L294"
    /\ IF state # IDLE THEN Goto(t, "L295") ELSE Goto(t, "free")
    /\ UNCHANGED <<now, session, last_frame, encoder, wave_file, temp_video_path,
                   temp_audio_path, recording_thread, audio_capture, audio_queue,
                   files, call, faults,
                   callbacks, progress, video_capture, encoding, mixer>>

\* if self.state == RecordingState.PAUSED: sleep; continue
L295(t) ==
    /\ threads[t].pc = "L295"
    /\ IF state = PAUSED THEN Goto(t, "L294") ELSE Goto(t, "L299")
    /\ UNCHANGED <<now, session, last_frame, encoder, wave_file, temp_video_path,
                   temp_audio_path, recording_thread, audio_capture, audio_queue,
                   files, call, faults,
                   callbacks, progress, video_capture, encoding, mixer>>

\* current_time = time.time()
L299(t) ==
    /\ threads[t].pc = "L299"
    /\ threads' = [threads EXCEPT ![t] = [At("L302") EXCEPT !.current_time = now]]
    /\ UNCHANGED <<now, session, last_frame, encoder, wave_file, temp_video_path,
                   temp_audio_path, recording_thread, audio_capture, audio_queue,
                   files, call, faults,
                   callbacks, progress, video_capture, encoding, mixer>>

\* Lines 302-308: is the recording behind schedule, and by how many frames.
L302(t) ==
    LET expected_frames == ExpectedFrames(threads[t].current_time)
    IN  /\ threads[t].pc = "L302"
        /\ IF encoder.obj /\ frames_recorded < expected_frames
           THEN threads' = [threads EXCEPT ![t] =
                    [At("L311") EXCEPT !.frames_needed = expected_frames - frames_recorded]]
           ELSE Goto(t, "L339")
        /\ UNCHANGED <<now, session, last_frame, encoder, wave_file, temp_video_path,
                       temp_audio_path, recording_thread, audio_capture, audio_queue,
                       files, call, faults,
                   callbacks, progress, video_capture, encoding, mixer>>

\* Lines 311-320: capture_frame_direct() returns a frame (named by the time of
\* the grab) or None; the frame to write is the fresh one or the last one.
L311(t, captured) ==
    LET frame == IF captured THEN now ELSE 0
        write_frame == IF frame # 0 THEN frame ELSE last_frame
    IN  /\ threads[t].pc = "L311"
        /\ faults + Cost(~captured) <= MaxFaults
        /\ faults' = faults + Cost(~captured)
        /\ last_frame' = IF frame # 0 THEN frame ELSE last_frame
        /\ IF write_frame # 0
           THEN threads' = [threads EXCEPT ![t] =
                    [At("L329") EXCEPT !.frames_needed = threads[t].frames_needed,
                                       !.write_frame = write_frame]]
           ELSE Goto(t, "L339")
        /\ UNCHANGED <<now, session, encoder, wave_file, temp_video_path,
                       temp_audio_path, recording_thread, audio_capture,
                       audio_queue, files, call, callbacks, progress, video_capture, encoding, mixer>>

\* The burst loop without the test of line 330.
L329_NoStopCheck(t) ==
    /\ threads[t].pc = "L329"
    /\ IF threads[t].frames_needed = 0
       THEN Goto(t, "L339")
       ELSE threads' = [threads EXCEPT ![t].pc = "L333"]
    /\ UNCHANGED <<now, session, last_frame, encoder, wave_file, temp_video_path,
                   temp_audio_path, recording_thread, audio_capture, audio_queue,
                   files, call, faults,
                   callbacks, progress, video_capture, encoding, mixer>>

\* for _ in range(frames_needed): if self.state == IDLE: break
L329(t) ==
    /\ threads[t].pc = "L329"
    /\ IF threads[t].frames_needed = 0 \/ state = IDLE
       THEN Goto(t, "L339")
       ELSE threads' = [threads EXCEPT ![t].pc = "L333"]
    /\ UNCHANGED <<now, session, last_frame, encoder, wave_file, temp_video_path,
                   temp_audio_path, recording_thread, audio_capture, audio_queue,
                   files, call, faults,
                   callbacks, progress, video_capture, encoding, mixer>>

\* Lines 333-336 counting a frame whether or not the write succeeded.
L333_CountsFailed(t) ==
    /\ threads[t].pc = "L333"
    /\ IF ~encoder.obj
       THEN Goto(t, "free") /\ UNCHANGED frames_recorded
       ELSE /\ frames_recorded' = frames_recorded + 1
            /\ threads' = [threads EXCEPT ![t].pc = "L329",
                                          ![t].frames_needed = @ - 1]
    /\ UNCHANGED <<now, state, start_time, pause_time, total_pause_duration,
                   audio_chunks_recorded, last_frame, encoder, wave_file,
                   temp_video_path, temp_audio_path, recording_thread,
                   audio_capture, audio_queue, files, call, faults,
                   callbacks, progress, video_capture, encoding, mixer>>

\* Lines 333-336.  self.encoder is None once stop_recording() has passed line
\* 189: the attribute access raises and ends the thread.
L333(t) ==
    /\ threads[t].pc = "L333"
    /\ IF ~encoder.obj
       THEN Goto(t, "free") /\ UNCHANGED frames_recorded
       ELSE IF WriteVideoFrameResult(encoder)
       THEN /\ frames_recorded' = frames_recorded + 1
            /\ threads' = [threads EXCEPT ![t].pc = "L329",
                                          ![t].frames_needed = @ - 1]
       ELSE Goto(t, "L339") /\ UNCHANGED frames_recorded
    /\ UNCHANGED <<now, state, start_time, pause_time, total_pause_duration,
                   audio_chunks_recorded, last_frame, encoder, wave_file,
                   temp_video_path, temp_audio_path, recording_thread,
                   audio_capture, audio_queue, files, call, faults,
                   callbacks, progress, video_capture, encoding, mixer>>

\* Lines 339-377: up to DrainMax queued chunks are mixed into one block and
\* written to the waveform file; then the thread sleeps until the next frame.
L339(t) ==
    LET n == Min(DrainMax, Len(audio_queue))
    IN  /\ threads[t].pc = "L339"
        /\ IF wave_file.obj /\ n > 0
           THEN /\ audio_queue' = SubSeq(audio_queue, n + 1, Len(audio_queue))
                /\ files' = WaveWrite(files, wave_file.path)
                /\ audio_chunks_recorded' = audio_chunks_recorded + 1
           ELSE UNCHANGED <<audio_queue, files, audio_chunks_recorded>>
        /\ Goto(t, "L294")
        /\ UNCHANGED <<now, state, start_time, pause_time, total_pause_duration,
                       frames_recorded, last_frame, encoder, wave_file,
                       temp_video_path, temp_audio_path, recording_thread,
                       audio_capture, call, faults,
                   callbacks, progress, video_capture, encoding, mixer>>

\* --------------------------------------------------------------- queries
\* Recorder.get_duration, in ticks.
get_duration ==
    IF ~Truthy(start_time) THEN 0
    ELSE LET elapsed == now - start_time - total_pause_duration
         IN Max(0, IF Truthy(pause_time) THEN elapsed - (now - pause_time) ELSE elapsed)

\* ------------------------------------------------------------ the system
\* Recorder.__init__ and AudioCapture.__init__; the output path may hold an
\* older recording.
Init ==
    /\ now = 1
    /\ state = IDLE
    /\ start_time = NoTime
    /\ pause_time = NoTime
    /\ total_pause_duration = 0
    /\ frames_recorded = 0
    /\ audio_chunks_recorded = 0
    /\ last_frame = 0
    /\ encoder = NoEncoder
    /\ wave_file = NoWave
    /\ temp_video_path = NoPath
    /\ temp_audio_path = NoPath
    /\ recording_thread = 0
    /\ \E enabled \in BOOLEAN :
          audio_capture = [system_audio_enabled |-> enabled,
                           microphone_enabled |-> enabled,
                           is_capturing |-> FALSE,
                           system_stream |-> FALSE,
                           microphone_stream |-> FALSE]
    /\ audio_queue = <<>>
    /\ \E older \in BOOLEAN :
          files = [p \in (IF older THEN {OutputPath} ELSE {}) |-> Content("older", 0, 0)]
    /\ threads = [t \in ThreadIds |-> FreeThread]
    /\ call = Returned("none", IDLE, TRUE, <<>>, "none")
    /\ faults = 0
    /\ callbacks = [source \in Sources |-> IdleCallback]
    /\ progress = <<>>
    /\ video_capture = FullScreenCapture
    /\ ffmpeg = NoProcess
    /\ writer = IdleWriter
    /\ stopper = IdleStopper
    /\ mixer = IdleMixer

Next ==
    \/ Tick
    \/ \E encoderSetup \in EncoderSetups, waveOpens, sysOpens, micOpens \in BOOLEAN :
          start_recording(encoderSetup, waveOpens, sysOpens, micOpens)
    \/ pause_recording
    \/ resume_recording
    \/ StopBegin
    \/ \E mergeResult \in MergeResults, raiseAt \in RaiseAts :
          StopFinish(mergeResult, raiseAt)
    \/ EncoderExits
    \/ \E source \in Sources : AudioCallback(source)
    \/ \E t \in ThreadIds :
          \/ L294(t)
          \/ L295(t)
          \/ L299(t)
          \/ L302(t)
          \/ \E captured \in BOOLEAN : L311(t, captured)
          \/ L329(t)
          \/ L333(t)
          \/ L339(t)

Spec == Init /\ [][Next]_vars

\* ================================================================ properties
\* A call of the caller thread returns in this step.
Returns(op) == call' # call /\ call'.op = op /\ call'.pc = "ret"

\* C1: pause_recording() in a state other than Recording, and
\* resume_recording() in a state other than Paused, returns False, notifies
\* nobody and leaves every session field (state, start_time, pause_time,
\* total_pause_duration, frames_recorded, audio_chunks_recorded) unchanged.
C1_InvalidPauseResume ==
    [][ \/ pause_recording /\ state # RECORDING
        \/ resume_recording /\ state # PAUSED
        => /\ call'.result = FALSE
           /\ call'.notified = <<>>
           /\ UNCHANGED session ]_vars

\* resume() was refused during a recording that has written frames, and pause()
\* would be refused as well.
C1_Witness ==
    /\ call.op = "resume" /\ call.outcome = "rejected" /\ call.from = RECORDING
    /\ state = RECORDING
    /\ frames_recorded > 0

\* C2 (as the code has it): stop_recording() in state Idle returns True; it
\* changes no session field, touches no file, releases nothing and notifies
\* nobody.
C2_StopWhileIdle ==
    [][ StopBegin /\ state = IDLE
        => /\ call'.result = TRUE
           /\ call'.pc = "ret"
           /\ call'.notified = <<>>
           /\ UNCHANGED <<session, last_frame, resources, audio_queue>> ]_vars

\* stop() returned from its early exit after an earlier session left a file.
C2_Witness ==
    /\ call.op = "stop" /\ call.outcome = "idle" /\ call.pc = "ret"
    /\ OutputPath \in DOMAIN files
    /\ Truthy(start_time)

\* C2 as stated: stop_recording() in state Idle is a no-op that returns False.
C2_AsStated ==
    [][ StopBegin /\ state = IDLE
        => /\ call'.result = FALSE
           /\ call'.notified = <<>>
           /\ UNCHANGED <<session, last_frame, resources, audio_queue>> ]_vars

\* C3: start_recording() in state Recording or Paused returns False and
\* changes nothing: no new encoder, no new temporary file, no new timing-loop
\* thread, counters and state untouched.
C3_StartWhileActive ==
    [][ Returns("start") /\ state \in {RECORDING, PAUSED}
        => /\ call'.result = FALSE
           /\ call'.notified = <<>>
           /\ UNCHANGED <<session, last_frame, resources, audio_queue>> ]_vars

\* start() was refused while paused, with frames already written.
C3_Witness ==
    /\ call.op = "start" /\ call.outcome = "rejected" /\ call.from = PAUSED
    /\ state = PAUSED
    /\ frames_recorded > 0
    /\ encoder.process = "running"

\* C4: the state changes only along Idle -> Recording (start),
\* Recording -> Paused (pause), Paused -> Recording (resume), and
\* Recording -> Idle, Paused -> Idle (stop).
C4_Transitions ==
    [][ state' # state
        => \/ state = IDLE /\ state' = RECORDING /\ call'.op = "start"
           \/ state = RECORDING /\ state' = PAUSED /\ call'.op = "pause"
           \/ state = PAUSED /\ state' = RECORDING /\ call'.op = "resume"
           \/ state \in {RECORDING, PAUSED} /\ state' = IDLE /\ call'.op = "stop" ]_vars

\* A paused session was stopped after a pause, a resume and a second pause.
C4_Witness ==
    /\ call.op = "stop" /\ call.from = PAUSED /\ call.pc = "ret"
    /\ state = IDLE
    /\ total_pause_duration > 0

\* C5 as stated: whenever start_recording() returns False because a setup
\* step failed, the state is Idle and nothing partially initialized is left:
\* no encoder process running, no audio capture running, no open waveform
\* file and no temporary video or audio file on disk.
C5_AsStated ==
    call.op = "start" /\ call.pc = "ret" /\ ~call.result /\ call.from = IDLE
    => /\ state = IDLE
       /\ encoder.process # "running"
       /\ ~audio_capture.is_capturing
       /\ ~wave_file.obj
       /\ TempPaths = {}

C9_StopResult ==
    [][ Returns("stop") /\ call.pc = "join"
        => /\ call'.outcome = "video_missing" <=> temp_video_path \notin DOMAIN files
           /\ call'.result <=> call'.outcome \in {"merged", "video_only"}
           /\ call'.result =>
                /\ OutputPath \in DOMAIN files'
                /\ files'[OutputPath].id = files[temp_video_path].id
                /\ files'[OutputPath].kind \in {"merged", "video"} ]_vars

\* stop() has returned False although the fallback put the video at the
\* output path.
C9_Witness ==
    /\ call.op = "stop" /\ call.pc = "ret" /\ call.outcome = "fallback"
    /\ ~call.result
    /\ OutputPath \in DOMAIN files /\ files[OutputPath].kind = "video"

\* C9 as stated: stop_recording() from Recording or Paused reports failure
\* only if the temporary video file is missing.
C9_AsStated ==
    [][ Returns("stop") /\ call.pc = "join" /\ ~call'.result
        => temp_video_path \notin DOMAIN files ]_vars

\* The pause-aware elapsed recording time, in ticks: now - start_time -
\* accumulated pause - current pause span.
Elapsed ==
    now - start_time - total_pause_duration
        - (IF state = PAUSED THEN now - pause_time ELSE 0)

\* C10 as stated: in every state of a session, frames_recorded never exceeds
\* floor(elapsed * fps).
C10_AsStated ==
    state \in {RECORDING, PAUSED}
    => frames_recorded <= (Elapsed * Fps) \div TicksPerSecond

\* C11 as stated: with a frame source and an encoder that always succeed and no
\* pause, after stop_recording() called at elapsed time T, frames_recorded
\* equals floor(T * fps) and the output file exists.
C11_AsStated ==
    /\ call.op = "stop" /\ call.pc = "ret" /\ call.from = RECORDING
    /\ faults = 0
    /\ total_pause_duration = 0 /\ pause_time = NoTime
    => /\ frames_recorded = ((call.at - start_time) * Fps) \div TicksPerSecond
       /\ OutputPath \in DOMAIN files

\* C12 as stated: while the state is Paused, get_duration() returns the same
\* value at every query, equal to the value it had at the instant
\* pause_recording() was called.
C12_AsStated ==
    [][ /\ state = PAUSED /\ state' = PAUSED => get_duration' = get_duration
        /\ state = RECORDING /\ state' = PAUSED => get_duration' = get_duration ]_vars

\* A step inside one session: no start and no stop.
SameSession ==
    /\ state \in {RECORDING, PAUSED}
    /\ state' \in {RECORDING, PAUSED}
    /\ start_time' = start_time

\* C13: within one session get_duration() never decreases, over clock ticks,
\* pauses and resumes; resume_recording() adds exactly the paused span to
\* total_pause_duration and clears pause_time, so the duration right after
\* the resume equals the duration frozen during the pause.
C13_DurationMonotone ==
    [][ SameSession
        => /\ get_duration' >= get_duration
           /\ state = PAUSED /\ state' = RECORDING
              => /\ total_pause_duration' = total_pause_duration + (now - pause_time)
                 /\ pause_time' = NoTime
                 /\ get_duration' = get_duration ]_vars

\* A session was paused for a while and has been resumed: the pause span is
\* accounted for and the pause timestamp is cleared.
C13_Witness ==
    /\ call.op = "resume" /\ call.result
    /\ state = RECORDING
    /\ total_pause_duration > 0
    /\ pause_time = NoTime
    /\ get_duration = now - start_time - total_pause_duration

\* C14 as stated: whenever the state is Idle, get_duration() returns 0, before
\* the first start and after stop_recording() has ended a session.
C14_AsStated == state = IDLE => get_duration = 0

\* C15 as stated: every successful start_recording() begins a fresh session:
\* frames_recorded = 0, audio_chunks_recorded = 0, accumulated pause duration 0
\* and no pending pause timestamp, however the previous session ended; the
\* session's get_duration() starts at 0 and advances with the clock while
\* Recording.
C15_AsStated ==
    [][ /\ Returns("start") /\ call'.result
           => /\ frames_recorded' = 0
              /\ audio_chunks_recorded' = 0
              /\ total_pause_duration' = 0
              /\ pause_time' = NoTime
              /\ get_duration' = 0
        /\ Tick /\ state = RECORDING => get_duration' = get_duration + 1 ]_vars

\* C16 (as the code has it): a start, pause, resume or stop that changes the
\* state invokes on_state_changed exactly once, with the new state (a stop
\* that returns False after a failed finalize included); a call that leaves
\* the state as it was invokes it zero times, whether it returns False or,
\* as stop_recording() in state Idle, True.
C16_StateChangedCallback ==
    [][ call' # call /\ call'.pc = "ret"
        => call'.notified = IF state' # call'.from THEN <<state'>> ELSE <<>> ]_vars

\* stop() returned False because the temporary video was missing and has
\* notified the caller of the Idle state once.
C16_Witness ==
    /\ call.op = "stop" /\ call.pc = "ret"
    /\ call.outcome = "video_missing" /\ ~call.result
    /\ call.notified = <<IDLE>>
    /\ state = IDLE

\* C16 as stated: each call that returns True invokes the callback exactly
\* once with the new state, and a call that returns False without changing the
\* state invokes it zero times.
C16_AsStated ==
    [][ call' # call /\ call'.pc = "ret"
        => /\ call'.result => call'.notified = <<state'>>
           /\ ~call'.result /\ state' = call'.from => call'.notified = <<>> ]_vars

\* ------------------------------------------- the engine in a sound environment
\* One step of the timing loop of thread t when the screen grab succeeds.
LoopStep(t) ==
    \/ L294(t)
    \/ L295(t)
    \/ L299(t)
    \/ L302(t)
    \/ L311(t, TRUE)
    \/ L329(t)
    \/ L333(t)
    \/ L339(t)

\* The steps of the engine when nothing in its environment fails: ffmpeg is
\* found and writes its file, both devices and the waveform file open, the
\* merge and the rename succeed and the loop thread ends within the join
\* timeout.
SteadyNext ==
    \/ Tick
    \/ start_recording("ok", TRUE, TRUE, TRUE)
    \/ pause_recording
    \/ resume_recording
    \/ StopBegin
    \/ StopFinish("ok", "none") /\ ~JoinTimesOut
    \/ \E source \in Sources : AudioCallback(source)
    \/ \E t \in ThreadIds : LoopStep(t)

\* The scheduler runs every timing-loop thread again and again, and the clock
\* advances; the caller is free never to call again.
FairSpec ==
    /\ Init
    /\ [][SteadyNext]_vars
    /\ WF_vars(Tick)
    /\ \A t \in ThreadIds : WF_vars(LoopStep(t))

\* C17 as stated: while a session is Recording with a progress callback
\* registered, the engine eventually invokes on_progress with the current
\* duration.
C17_AsStated == <>[](state = RECORDING) => <>(progress # <<>>)

\* What C18 promises of a start in which exactly the channel `failed` cannot
\* be opened and `other` is the remaining channel.
OnlyChannelDisabled(failedEnabled, failedStream, otherEnabled, otherStream) ==
    /\ ~audio_capture'[failedEnabled]
    /\ ~audio_capture'[failedStream]
    /\ audio_capture'[otherEnabled] = audio_capture[otherEnabled]
    /\ audio_capture'[otherStream] = audio_capture[otherEnabled]
    /\ audio_capture'.is_capturing
    /\ state' = RECORDING
    /\ call'.result

\* C18: when one audio channel cannot be located or opened, start_capture()
\* disables only that channel and still succeeds: the other channel's stream
\* runs if it was enabled, and start_recording() reaches Recording.
C18_OneChannelFails ==
    [][ \A encoderSetup \in {"no_file", "ok"}, waveOpens \in BOOLEAN :
          /\ StartFromIdle(encoderSetup, waveOpens, TRUE, FALSE)
             => OnlyChannelDisabled("microphone_enabled", "microphone_stream",
                                    "system_audio_enabled", "system_stream")
          /\ StartFromIdle(encoderSetup, waveOpens, FALSE, TRUE)
             => OnlyChannelDisabled("system_audio_enabled", "system_stream",
                                    "microphone_enabled", "microphone_stream") ]_vars

\* A session whose microphone could not be opened has recorded system audio.
C18_Witness ==
    /\ state = RECORDING
    /\ audio_capture.is_capturing
    /\ audio_capture.system_stream
    /\ ~audio_capture.microphone_enabled
    /\ audio_chunks_recorded > 0

\* ------------------------------------- the capture callbacks, step by step
\* AudioCapture with both streams running and a queue that the mixer has not
\* kept up with.  Each callback thread runs lines 86-99 (system) or 106-119
\* (microphone) one queue operation at a time, so that the two callbacks and
\* the consumer interleave.
MaxDeliveries == 2      \* invocations of each callback

\* A chunk is named by its source and the number of the invocation.
OldChunk == <<"old", 0>>

\* The callback thread cb about to run the queue operation pc.
InCallback(cb, pc, last) == [cb EXCEPT !.pc = pc, !.last = last]

\* The stream's thread calls the callback (lines 86-89).
CallbackEnter(source) ==
    /\ callbacks[source].pc = "idle"
    /\ callbacks[source].n < MaxDeliveries
    /\ audio_capture.is_capturing
    /\ callbacks' = [callbacks EXCEPT ![source] =
            [pc |-> "put", chunk |-> <<source, callbacks[source].n + 1>>,
             n |-> callbacks[source].n + 1, last |-> "none"]]
    /\ UNCHANGED <<now, session, last_frame, resources, audio_queue, call,
                   faults, progress, video_capture, encoding, mixer>>

\* Lines 92 / 112: put_nowait; queue.Full leads to the fallback.
CallbackPut(source) ==
    /\ callbacks[source].pc = "put"
    /\ IF Len(audio_queue) < QueueMaxSize
       THEN /\ audio_queue' = Append(audio_queue, callbacks[source].chunk)
            /\ callbacks' = [callbacks EXCEPT ![source] = InCallback(@, "idle", "enqueued")]
       ELSE /\ callbacks' = [callbacks EXCEPT ![source] = InCallback(@, "get", "full")]
            /\ UNCHANGED audio_queue
    /\ UNCHANGED <<now, session, last_frame, resources, call, faults, progress, video_capture, encoding, mixer>>

\* Lines 96 / 116: get_nowait; queue.Empty is caught at line 98 / 118 and the
\* callback returns without its chunk.
CallbackGet(source) ==
    /\ callbacks[source].pc = "get"
    /\ IF Len(audio_queue) > 0
       THEN /\ audio_queue' = Tail(audio_queue)
            /\ callbacks' = [callbacks EXCEPT ![source] = InCallback(@, "reput", "full")]
       ELSE /\ callbacks' = [callbacks EXCEPT ![source] = InCallback(@, "idle", "lost")]
            /\ UNCHANGED audio_queue
    /\ UNCHANGED <<now, session, last_frame, resources, call, faults, progress, video_capture, encoding, mixer>>

\* Lines 97 / 117: the second put_nowait; queue.Full is not caught here and
\* leaves the callback as an exception.
CallbackReput(source) ==
    /\ callbacks[source].pc = "reput"
    /\ IF Len(audio_queue) < QueueMaxSize
       THEN /\ audio_queue' = Append(audio_queue, callbacks[source].chunk)
            /\ callbacks' = [callbacks EXCEPT ![source] = InCallback(@, "idle", "replaced")]
       ELSE /\ callbacks' = [callbacks EXCEPT ![source] = InCallback(@, "raised", "raised")]
            /\ UNCHANGED audio_queue
    /\ UNCHANGED <<now, session, last_frame, resources, call, faults, progress, video_capture, encoding, mixer>>

\* AudioCapture.get_audio_chunk called by the mixer (recorder.py:343).
MixerGet ==
    /\ Len(audio_queue) > 0
    /\ audio_queue' = Tail(audio_queue)
    /\ UNCHANGED <<now, session, last_frame, resources, call, faults,
                   callbacks, progress, video_capture, encoding, mixer>>

\* Both streams run and the queue is full, or one short of full.
QueueInit ==
    /\ now = 1
    /\ state = IDLE
    /\ start_time = NoTime
    /\ pause_time = NoTime
    /\ total_pause_duration = 0
    /\ frames_recorded = 0
    /\ audio_chunks_recorded = 0
    /\ last_frame = 0
    /\ encoder = NoEncoder
    /\ wave_file = NoWave
    /\ temp_video_path = NoPath
    /\ temp_audio_path = NoPath
    /\ recording_thread = 0
    /\ audio_capture = [system_audio_enabled |-> TRUE,
                        microphone_enabled |-> TRUE,
                        is_capturing |-> TRUE,
                        system_stream |-> TRUE,
                        microphone_stream |-> TRUE]
    /\ \E n \in {QueueMaxSize - 1, QueueMaxSize} :
          audio_queue = [i \in 1..n |-> OldChunk]
    /\ files = [p \in {} |-> Content("none", 0, 0)]
    /\ threads = [t \in ThreadIds |-> FreeThread]
    /\ call = Returned("none", IDLE, TRUE, <<>>, "none")
    /\ faults = 0
    /\ callbacks = [source \in Sources |-> IdleCallback]
    /\ progress = <<>>
    /\ video_capture = FullScreenCapture
    /\ ffmpeg = NoProcess
    /\ writer = IdleWriter
    /\ stopper = IdleStopper
    /\ mixer = IdleMixer

QueueNext ==
    \/ \E source \in Sources :
          \/ CallbackEnter(source)
          \/ CallbackPut(source)
          \/ CallbackGet(source)
          \/ CallbackReput(source)
    \/ MixerGet

QueueSpec == QueueInit /\ [][QueueNext]_vars

\* C19 as stated: the audio queue never holds more than 50 chunks, and a
\* callback that finds it full drops the oldest queued chunk and enqueues its
\* new chunk: when such an invocation ends, the new chunk is the last in the
\* queue.
C19_AsStated ==
    /\ [](Len(audio_queue) <= QueueMaxSize)
    /\ [][ \A source \in Sources :
             /\ callbacks[source].last = "full"
             /\ callbacks'[source].pc \in {"idle", "raised"}
             => /\ audio_queue' # <<>>
                /\ audio_queue'[Len(audio_queue')] = callbacks[source].chunk ]_vars

\* C20 as stated: on a full queue, with both callbacks and the consumer
\* running, no callback invocation ends in an exception.
C20_AsStated == \A source \in Sources : callbacks[source].pc # "raised"

\* C21 as stated: when stop_recording() has run stop_capture(), the chunks that
\* were still queued are gone (get_audio_chunk() would return None), and when
\* a later start_recording() has run start_capture() on the same object the
\* queue holds no chunk from before the stop.
C21_AsStated ==
    [][ /\ Returns("stop") /\ call.pc = "join" => audio_queue' = <<>>
        /\ Returns("start") /\ call'.result => audio_queue' = <<>> ]_vars

\* ------------------------------------------ FFmpegEncoder, statement by statement
\* One thread calls write_video_frame (the timing loop), another start_encoding
\* and stop_encoding (the caller of the Recorder); stop_recording() lets the
\* two overlap when its join times out.  The child exits with 0 once it has
\* read the end of its input, with 1 when it fails or is terminated, or not
\* at all.
MaxWrites == 2          \* calls of write_video_frame
MaxStops == 2           \* calls of stop_encoding

\* FFmpegEncoder.width and height: the resolution of the capture.
Width == MonitorWidth
Height == MonitorHeight
FrameBytes == Width * Height * 3

\* numpy arrays of dtype uint8 handed to write_video_frame.
Frames == [rows : {Height, Height + 1}, cols : {Width}, channels : {3, 4}]
\* len(frame.tobytes())
ByteLength(frame) == frame.rows * frame.cols * frame.channels
\* Lines 165-170: a frame of another shape is resized to (height, width); the
\* number of channels stays.
Resized(frame) ==
    IF <<frame.rows, frame.cols>> # <<Height, Width>>
    THEN [frame EXCEPT !.rows = Height, !.cols = Width]
    ELSE frame

\* Everything but the encoder, its child and the calls on the encoder.
engine == <<now, session, last_frame, wave_file, temp_video_path,
            temp_audio_path, recording_thread, audio_capture, audio_queue,
            files, threads, call, faults, callbacks, progress, video_capture,
            mixer>>

\* The child exits; the Popen object stays.
ChildExits(code) ==
    /\ ffmpeg.status = "running"
    /\ code = 0 => ffmpeg.stdin = "closed" /\ ~ffmpeg.terminated
    /\ ffmpeg' = [ffmpeg EXCEPT !.status = "exited", !.returncode = code]
    /\ encoder' = IF encoder.process = "running"
                  THEN [encoder EXCEPT !.process = "exited"]
                  ELSE encoder
    /\ UNCHANGED <<engine, writer, stopper>>

\* FFmpegEncoder.start_encoding, lines 126-148, called once the caller's last
\* stop_encoding() has returned.  When Popen raises, the handler calls
\* stop_encoding(), which returns at line 228.
StartEncoding(popenOk) ==
    /\ encoder.obj
    /\ stopper.pc = "idle"
    /\ encoder.is_encoding \/ ffmpeg.status = "none"
    /\ IF encoder.is_encoding \/ ~popenOk
       THEN UNCHANGED <<encoder, ffmpeg>>
       ELSE /\ encoder' = StartedEncoder(encoder)
            /\ ffmpeg' = [NoProcess EXCEPT !.status = "running", !.stdin = "open",
                                           !.received = ffmpeg.received]
    /\ UNCHANGED <<engine, writer, stopper>>

\* write_video_frame returns.
WriteReturns(result) ==
    writer' = [writer EXCEPT !.pc = "idle", !.result = result,
                             !.trues = @ + (IF result THEN 1 ELSE 0)]
\* An exception leaves write_video_frame.
WriteRaises == writer' = [writer EXCEPT !.pc = "raised"]

\* The timing loop calls write_video_frame(frame).
WriteCall(frame) ==
    /\ writer.pc = "idle"
    /\ writer.calls < MaxWrites
    /\ writer' = [writer EXCEPT !.pc = "L160", !.frame = frame, !.sent = 0,
                                !.calls = @ + 1]
    /\ UNCHANGED <<engine, encoder, ffmpeg, stopper>>

\* Line 160.  A Popen's stdin is a file object, which is true even when closed.
W160 ==
    /\ writer.pc = "L160"
    /\ IF ~encoder.is_encoding \/ encoder.process = "none"
       THEN WriteReturns(FALSE)
       ELSE writer' = [writer EXCEPT !.pc = "L165"]
    /\ UNCHANGED <<engine, encoder, ffmpeg, stopper>>

\* Lines 165-182: the frame is resized if its shape differs, and refused if it
\* then has another length than width * height * 3.
W165 ==
    /\ writer.pc = "L165"
    /\ IF ByteLength(Resized(writer.frame)) # FrameBytes
       THEN WriteReturns(FALSE)
       ELSE writer' = [writer EXCEPT !.pc = "L184"]
    /\ UNCHANGED <<engine, encoder, ffmpeg, stopper>>

\* Line 184: self.process.stdin.write(frame_bytes).  self.process is read
\* again: it is None once stop_encoding() has passed line 280, and the
\* AttributeError is not among the exceptions of line 188.  A closed file
\* raises ValueError and a pipe without reader BrokenPipeError or OSError.
W184 ==
    /\ writer.pc = "L184"
    /\ IF encoder.process = "none"
       THEN WriteRaises /\ UNCHANGED ffmpeg
       ELSE IF ffmpeg.stdin = "closed" \/ ffmpeg.status = "exited"
       THEN WriteReturns(FALSE) /\ UNCHANGED ffmpeg
       ELSE /\ ffmpeg' = [ffmpeg EXCEPT !.received = @ + ByteLength(Resized(writer.frame))]
            /\ writer' = [writer EXCEPT !.pc = "L185",
                                        !.sent = ByteLength(Resized(writer.frame))]
    /\ UNCHANGED <<engine, encoder, stopper>>

\* Lines 185-186: self.process.stdin.flush() and return True.
W185 ==
    /\ writer.pc = "L185"
    /\ IF encoder.process = "none"
       THEN WriteRaises
       ELSE IF ffmpeg.stdin = "closed"
       THEN WriteReturns(FALSE)
       ELSE WriteReturns(TRUE)
    /\ UNCHANGED <<engine, encoder, ffmpeg, stopper>>

\* stop_encoding returns.
StopReturns(result) ==
    stopper' = [stopper EXCEPT !.pc = "idle", !.result = result]

\* The caller calls stop_encoding().
StopEncodingCall ==
    /\ encoder.obj
    /\ stopper.pc = "idle"
    /\ stopper.calls < MaxStops
    /\ stopper' = [stopper EXCEPT !.pc = "L227", !.calls = @ + 1, !.timeouts = 0]
    /\ UNCHANGED <<engine, encoder, ffmpeg, writer>>

\* Lines 227-230.
S227 ==
    /\ stopper.pc = "L227"
    /\ IF ~encoder.is_encoding
       THEN StopReturns(TRUE) /\ UNCHANGED encoder
       ELSE /\ encoder' = [encoder EXCEPT !.is_encoding = FALSE]
            /\ stopper' = [stopper EXCEPT !.pc = "L233"]
    /\ UNCHANGED <<engine, ffmpeg, writer>>

\* Lines 233-236: stdin is closed, which the child reads as the end of input.
S233 ==
    /\ stopper.pc = "L233"
    /\ IF encoder.process = "none"
       THEN StopReturns(TRUE) /\ UNCHANGED ffmpeg
       ELSE /\ ffmpeg' = [ffmpeg EXCEPT !.stdin = "closed"]
            /\ stopper' = [stopper EXCEPT !.pc = "L257"]
    /\ UNCHANGED <<engine, encoder, writer>>

\* A first wait whose timeout leads straight to terminate().
S257_Terminates ==
    /\ stopper.pc = "L257"
    /\ IF ffmpeg.status = "exited"
       THEN stopper' = [stopper EXCEPT !.pc = "L275"]
       ELSE stopper' = [stopper EXCEPT !.pc = "L271", !.timeouts = 1]
    /\ UNCHANGED <<engine, encoder, ffmpeg, writer>>

\* Line 257: self.process.wait(timeout=30), the primary wait.
S257 ==
    /\ stopper.pc = "L257"
    /\ IF ffmpeg.status = "exited"
       THEN stopper' = [stopper EXCEPT !.pc = "L275"]
       ELSE stopper' = [stopper EXCEPT !.pc = "L268", !.timeouts = 1]
    /\ UNCHANGED <<engine, encoder, ffmpeg, writer>>

\* Lines 261-268: stdin is closed already; self.process.wait(timeout=5), the
\* secondary wait.
S268 ==
    /\ stopper.pc = "L268"
    /\ IF ffmpeg.status = "exited"
       THEN stopper' = [stopper EXCEPT !.pc = "L275"]
       ELSE stopper' = [stopper EXCEPT !.pc = "L271", !.timeouts = 2]
    /\ UNCHANGED <<engine, encoder, ffmpeg, writer>>

\* Line 271: self.process.terminate().
S271 ==
    /\ stopper.pc = "L271"
    /\ ffmpeg' = [ffmpeg EXCEPT !.terminated = ffmpeg.status = "running"]
    /\ stopper' = [stopper EXCEPT !.pc = "L272"]
    /\ UNCHANGED <<engine, encoder, writer>>

\* A wait after terminate() without a timeout.
S272_Unbounded ==
    /\ stopper.pc = "L272"
    /\ ffmpeg.status = "exited"
    /\ stopper' = [stopper EXCEPT !.pc = "L275"]
    /\ UNCHANGED <<engine, encoder, ffmpeg, writer>>

\* Line 272: self.process.wait(timeout=5) after terminate().  Its
\* TimeoutExpired is raised inside the handler of line 269 and reaches the
\* handler of line 284, which returns False.
S272 ==
    /\ stopper.pc = "L272"
    /\ IF ffmpeg.status = "exited"
       THEN stopper' = [stopper EXCEPT !.pc = "L275"]
       ELSE StopReturns(FALSE)
    /\ UNCHANGED <<engine, encoder, ffmpeg, writer>>

\* Lines 275-282: the exit status decides; self.process is dropped only after
\* a clean exit.
S275 ==
    /\ stopper.pc = "L275"
    /\ IF ffmpeg.returncode # 0
       THEN StopReturns(FALSE) /\ UNCHANGED encoder
       ELSE StopReturns(TRUE) /\ encoder' = [encoder EXCEPT !.process = "none"]
    /\ UNCHANGED <<engine, ffmpeg, writer>>

\* One statement of stop_encoding().
StopEncodingStep ==
    S227 \/ S233 \/ S257 \/ S268 \/ S271 \/ S272 \/ S275

\* An FFmpegEncoder on its own: constructed, not started.
EncoderInit ==
    /\ now = 1
    /\ state = IDLE
    /\ start_time = NoTime
    /\ pause_time = NoTime
    /\ total_pause_duration = 0
    /\ frames_recorded = 0
    /\ audio_chunks_recorded = 0
    /\ last_frame = 0
    /\ encoder = NewEncoder(TempVideoPath(0))
    /\ wave_file = NoWave
    /\ temp_video_path = NoPath
    /\ temp_audio_path = NoPath
    /\ recording_thread = 0
    /\ audio_capture = [system_audio_enabled |-> FALSE,
                        microphone_enabled |-> FALSE,
                        is_capturing |-> FALSE,
                        system_stream |-> FALSE,
                        microphone_stream |-> FALSE]
    /\ audio_queue = <<>>
    /\ files = [p \in {} |-> Content("none", 0, 0)]
    /\ threads = [t \in ThreadIds |-> FreeThread]
    /\ call = Returned("none", IDLE, TRUE, <<>>, "none")
    /\ faults = 0
    /\ callbacks = [source \in Sources |-> IdleCallback]
    /\ progress = <<>>
    /\ video_capture = FullScreenCapture
    /\ ffmpeg = NoProcess
    /\ writer = IdleWriter
    /\ stopper = IdleStopper
    /\ mixer = IdleMixer

EncoderNext ==
    \/ \E popenOk \in BOOLEAN : StartEncoding(popenOk)
    \/ \E frame \in Frames : WriteCall(frame)
    \/ W160
    \/ W165
    \/ W184
    \/ W185
    \/ StopEncodingCall
    \/ S227
    \/ S233
    \/ S257
    \/ S268
    \/ S271
    \/ S272
    \/ S275
    \/ \E code \in {0, 1} : ChildExits(code)

EncoderSpec == EncoderInit /\ [][EncoderNext]_vars

\* A call of write_video_frame returns in this step.
WriteDone == writer.pc \notin {"idle", "raised"} /\ writer'.pc = "idle"

\* C22 as stated: write_video_frame() returns False and writes no bytes to the
\* pipe when the frame's byte length differs from width * height * 3; every
\* call that returns True has written exactly width * height * 3 bytes; and
\* between calls the bytes sent to the encoder are (number of True results)
\* * width * height * 3.
C22_AsStated ==
    /\ [][ WriteDone
           => /\ ByteLength(writer.frame) # FrameBytes
                 => ~writer'.result /\ writer'.sent = 0
              /\ writer'.result => writer'.sent = FrameBytes ]_vars
    /\ [](writer.pc = "idle" => ffmpeg.received = writer.trues * FrameBytes)

\* A statement of write_video_frame is executed in this step.
WriteStep == writer' # writer /\ writer.pc \notin {"idle", "raised"}

\* C23 as stated: write_video_frame() never raises to its caller; it returns
\* False when the encoder is not encoding (never started, or after
\* stop_encoding()) and when the pipe is closed or broken at the write; and no
\* statement of it changes the encoder's state.
C23_AsStated ==
    /\ [](writer.pc # "raised")
    /\ [][ WriteStep
           => /\ writer.pc = "L160" /\ ~encoder.is_encoding
                 => writer'.pc = "idle" /\ ~writer'.result
              /\ /\ writer.pc = "L184"
                 /\ ffmpeg.stdin = "closed" \/ ffmpeg.status = "exited"
                 => writer'.pc = "idle" /\ ~writer'.result
              /\ encoder' = encoder
              /\ ffmpeg'.stdin = ffmpeg.stdin
              /\ ffmpeg'.status = ffmpeg.status ]_vars

\* A call of stop_encoding returns in this step.
StopDone == stopper.pc # "idle" /\ stopper'.pc = "idle"

\* C24 (as the code has it): stop_encoding() calls terminate() only after the
\* primary and the secondary wait have both timed out, and a call made while
\* the encoder is encoding returns False whenever the child's exit status is
\* non-zero; a call on an encoder that is not encoding returns True without
\* looking at the child.
C24_StopEncoding ==
    [][ /\ stopper.pc = "L271" /\ stopper'.pc # "L271" => stopper.timeouts = 2
        /\ ffmpeg'.terminated /\ ~ffmpeg.terminated => stopper.timeouts = 2
        /\ StopDone /\ stopper.pc # "L227" /\ ffmpeg'.returncode \notin {NoCode, 0}
           => ~stopper'.result
        /\ StopDone /\ stopper.pc = "L227" => stopper'.result ]_vars

\* stop_encoding() has returned False after both waits timed out and the
\* terminated child exited with status 1.
C24_Witness ==
    /\ stopper.pc = "idle" /\ stopper.calls = 1
    /\ stopper.timeouts = 2
    /\ ffmpeg.terminated
    /\ ffmpeg.returncode = 1
    /\ ~stopper.result

\* C24 as stated: stop_encoding() terminates the child only after both waits
\* have timed out, and it returns False whenever the child's exit status is
\* non-zero.
C24_AsStated ==
    [][ /\ ffmpeg'.terminated /\ ~ffmpeg.terminated => stopper.timeouts = 2
        /\ StopDone /\ ffmpeg'.returncode \notin {NoCode, 0} => ~stopper'.result ]_vars

\* ------------------------------------- stop_recording, statement by statement
\* A session that is recording, stopped by a caller whose stop_recording()
\* runs the join, the statements of stop_encoding() and the rest of the
\* teardown one after the other.  The timing loop may stay for ever in the
\* screen grab or in the write into the pipe, and the child may never exit.

\* The steps of the timing loop that cannot block.
LoopProgress(t) ==
    \/ L294(t)
    \/ L295(t)
    \/ L299(t)
    \/ L302(t)
    \/ L329(t)
    \/ L339(t)

\* Lines 180-182: the join returns, by the thread's end or by its timeout.
JoinStep ==
    /\ call.pc = "join"
    /\ recording_thread # 0
    /\ JoinReturns
    /\ recording_thread' = 0
    /\ UNCHANGED <<now, session, last_frame, encoder, wave_file, temp_video_path,
                   temp_audio_path, audio_capture, audio_queue, files, threads,
                   call, faults, callbacks, progress, video_capture, encoding, mixer>>

\* Lines 185-188: self.encoder.stop_encoding() is called.
CallStopEncoding ==
    /\ call.pc = "join"
    /\ recording_thread = 0
    /\ stopper.calls = 0
    /\ StopEncodingCall

\* Lines 189-249, once stop_encoding() has returned.
FinishStep ==
    /\ recording_thread = 0
    /\ stopper.pc = "idle"
    /\ stopper.calls = 1
    /\ StopFinish("ok", "none")

\* start_recording() has returned True: the encoder's child runs, both audio
\* streams and the waveform file are open and the timing loop is about to
\* start.
StopInit ==
    /\ now = 1
    /\ state = RECORDING
    /\ start_time = 1
    /\ pause_time = NoTime
    /\ total_pause_duration = 0
    /\ frames_recorded = 0
    /\ audio_chunks_recorded = 0
    /\ last_frame = 0
    /\ encoder = StartedEncoder(NewEncoder(TempVideoPath(0)))
    /\ wave_file = [obj |-> TRUE, path |-> TempAudioPath(0)]
    /\ temp_video_path = TempVideoPath(0)
    /\ temp_audio_path = TempAudioPath(0)
    /\ recording_thread = 1
    /\ audio_capture = [system_audio_enabled |-> TRUE,
                        microphone_enabled |-> TRUE,
                        is_capturing |-> TRUE,
                        system_stream |-> TRUE,
                        microphone_stream |-> TRUE]
    /\ audio_queue = <<>>
    /\ files = [p \in {TempVideoPath(0), TempAudioPath(0)} |->
                    Content(IF p = TempVideoPath(0) THEN "video" ELSE "wav", 1, 0)]
    /\ threads = [t \in ThreadIds |-> IF t = 1 THEN At("L294") ELSE FreeThread]
    /\ call = Returned("start", IDLE, TRUE, <<RECORDING>>, "started")
    /\ faults = 0
    /\ callbacks = [source \in Sources |-> IdleCallback]
    /\ progress = <<>>
    /\ video_capture = FullScreenCapture
    /\ ffmpeg = [NoProcess EXCEPT !.status = "running", !.stdin = "open"]
    /\ writer = IdleWriter
    /\ stopper = IdleStopper
    /\ mixer = IdleMixer

StopNext ==
    \/ Tick
    \/ pause_recording
    \/ resume_recording
    \/ StopBegin
    \/ JoinStep
    \/ CallStopEncoding
    \/ S227
    \/ S233
    \/ S257
    \/ S268
    \/ S271
    \/ S272
    \/ S275
    \/ FinishStep
    \/ \E code \in {0, 1} : ChildExits(code)
    \/ \E source \in Sources : AudioCallback(source)
    \/ \E t \in ThreadIds : LoopStep(t)

\* The caller's thread keeps running, and so does the timing loop wherever it
\* cannot block; nothing makes the child exit or a blocked grab or write end.
StopSpec ==
    /\ StopInit
    /\ [][StopNext]_vars
    /\ WF_vars(JoinStep)
    /\ WF_vars(CallStopEncoding)
    /\ WF_vars(StopEncodingStep)
    /\ WF_vars(FinishStep)
    /\ \A t \in ThreadIds : WF_vars(LoopProgress(t))

\* C25: a stop_recording() that has set the state to Idle eventually returns,
\* with the state still Idle, even if the encoder's child never exits on its
\* own and the timing loop stays blocked in a frame write: the join, both
\* waits and the wait after terminate() all time out.
C25_StopReturns ==
    (call.pc = "join") ~> (call.pc = "ret" /\ call.op = "stop" /\ state = IDLE)

\* stop_recording() has returned although the child had to be terminated and
\* the timing loop is still in its frame write.
C25_Witness ==
    /\ call.op = "stop" /\ call.pc = "ret"
    /\ state = IDLE
    /\ ffmpeg.terminated
    /\ stopper.timeouts = 2
    /\ \E t \in ThreadIds : threads[t].pc = "L333"

\* ------------------------------------------- VideoCapture's capture region
CoordMax == 2           \* screen coordinates range over 0..CoordMax

Modes == {"full_screen", "window", "region"}
\* Regions as the region selector delivers them: (left, top, width, height)
\* with a positive size; NoRegion when none was selected.
Regions == {<<left, top, width, height>> :
                left \in {0}, top \in {0}, width \in 1..CoordMax, height \in 1..CoordMax}
\* What win32gui.GetWindowRect returns, (left, top, right, bottom), for windows
\* of any extent; NoRect when the call raises.
NoRect == <<>>
WindowRects == {<<left, top, right, bottom>> :
                    left \in 0..CoordMax, top \in 0..CoordMax,
                    right \in 0..CoordMax, bottom \in 0..CoordMax}
\* Window handles; 0 stands for None.
Handles == {0, 1}

\* VideoCapture._setup_capture_region: the capture_rect for the object's mode,
\* region and window handle, given the answer of GetWindowRect.
SetupCaptureRegion(vc, rect) ==
    IF vc.mode = "full_screen" THEN Monitor
    ELSE IF vc.mode = "window" /\ vc.window_handle # 0
    THEN IF rect = NoRect THEN Monitor
         ELSE [top |-> rect[2], left |-> rect[1],
               width |-> rect[3] - rect[1], height |-> rect[4] - rect[2]]
    ELSE IF vc.mode = "region" /\ vc.region # NoRegion
    THEN [top |-> vc.region[2], left |-> vc.region[1],
          width |-> vc.region[3], height |-> vc.region[4]]
    ELSE Monitor

\* GetWindowRect is called for this object: its answer is an input.
AsksWindowRect(vc) == vc.mode = "window" /\ vc.window_handle # 0

\* The object with its capture_rect set up again.
WithCaptureRegion(vc, rect) ==
    [vc EXCEPT !.capture_rect = SetupCaptureRegion(vc, rect)]

\* Everything but the VideoCapture object.
besides == <<now, session, last_frame, resources, audio_queue, call, faults,
             callbacks, progress, encoding, mixer>>

\* VideoCapture.update_region.
update_region(region, rect) ==
    /\ rect = NoRect \/ AsksWindowRect(video_capture)
    /\ video_capture' = WithCaptureRegion([video_capture EXCEPT !.region = region], rect)
    /\ UNCHANGED besides

\* VideoCapture.update_window.
update_window(window_handle, rect) ==
    /\ rect = NoRect
       \/ AsksWindowRect([video_capture EXCEPT !.window_handle = window_handle])
    /\ video_capture' =
           WithCaptureRegion([video_capture EXCEPT !.window_handle = window_handle], rect)
    /\ UNCHANGED besides

\* VideoCapture.__init__ for every mode, before a region or a window is chosen.
RegionInit ==
    /\ now = 1
    /\ state = IDLE
    /\ start_time = NoTime
    /\ pause_time = NoTime
    /\ total_pause_duration = 0
    /\ frames_recorded = 0
    /\ audio_chunks_recorded = 0
    /\ last_frame = 0
    /\ encoder = NoEncoder
    /\ wave_file = NoWave
    /\ temp_video_path = NoPath
    /\ temp_audio_path = NoPath
    /\ recording_thread = 0
    /\ audio_capture = [system_audio_enabled |-> FALSE,
                        microphone_enabled |-> FALSE,
                        is_capturing |-> FALSE,
                        system_stream |-> FALSE,
                        microphone_stream |-> FALSE]
    /\ audio_queue = <<>>
    /\ files = [p \in {} |-> Content("none", 0, 0)]
    /\ threads = [t \in ThreadIds |-> FreeThread]
    /\ call = Returned("none", IDLE, TRUE, <<>>, "none")
    /\ faults = 0
    /\ callbacks = [source \in Sources |-> IdleCallback]
    /\ progress = <<>>
    /\ \E mode \in Modes :
          video_capture = WithCaptureRegion([FullScreenCapture EXCEPT !.mode = mode], NoRect)
    /\ ffmpeg = NoProcess
    /\ writer = IdleWriter
    /\ stopper = IdleStopper
    /\ mixer = IdleMixer

RegionNext ==
    \/ \E region \in Regions, rect \in WindowRects \cup {NoRect} :
          update_region(region, rect)
    \/ \E window_handle \in Handles \ {0}, rect \in WindowRects \cup {NoRect} :
          update_window(window_handle, rect)

RegionSpec == RegionInit /\ [][RegionNext]_vars

\* C26 as stated: the capture region has width > 0 and height > 0 for every
\* mode and every input accepted for that mode, a window whose rectangle has
\* right <= left or bottom <= top included.
C26_AsStated ==
    /\ video_capture.capture_rect.width > 0
    /\ video_capture.capture_rect.height > 0

\* stop_recording() has passed the join and closed the encoder's pipe (line
\* 236 of encoder.py), the first step of the teardown.
TeardownBegun == call.op = "stop" /\ ffmpeg.stdin = "closed"

\* C27 as stated: the timing loop has fully exited before stop_recording()
\* starts the teardown, the join timing out included, and from then on no
\* frame is written to the encoder and no samples are appended to the
\* waveform file.
C27_AsStated ==
    /\ [](TeardownBegun => \A t \in ThreadIds : threads[t].pc = "free")
    /\ [][ TeardownBegun
           => /\ frames_recorded' = frames_recorded
              /\ audio_chunks_recorded' = audio_chunks_recorded ]_vars

\* The timing-loop threads that have not ended.
Running == {t \in ThreadIds : threads[t].pc # "free"}

\* C28 as stated: at most one timing-loop thread of the Recorder runs at any
\* time, and a frame is only ever written by the thread of the current
\* session, also when start_recording() follows a stop_recording() whose join
\* timed out.
C28_AsStated ==
    /\ [](Cardinality(Running) <= 1)
    /\ [][ \A t \in ThreadIds :
             threads'[t] # threads[t] /\ frames_recorded' > frames_recorded
             => t = recording_thread ]_vars


\* C29 as stated: while the state is Paused, frames_recorded and
\* audio_chunks_recorded do not change and nothing is written to the encoder
\* or the waveform file, also when pause_recording() interleaves with a loop
\* iteration that is in progress.
C29_AsStated ==
    [][ state = PAUSED /\ state' = PAUSED
        => /\ frames_recorded' = frames_recorded
           /\ audio_chunks_recorded' = audio_chunks_recorded
           /\ files' = files ]_vars


\* The chunks the mixer takes from the queue in one iteration (lines 342-347).
Drained == SubSeq(audio_queue, 1, Min(DrainMax, Len(audio_queue)))

\* C30 as stated: audio chunks captured while the session is Paused are never
\* appended to the waveform file; what is written after resume_recording()
\* comes only from chunks captured while the state was Recording.
C30_AsStated ==
    [][ audio_chunks_recorded' > audio_chunks_recorded
        => \A i \in 1..Len(Drained) : ~Drained[i][2] ]_vars


\* C31: pause_recording() and resume_recording() create and destroy no thread
\* and leave the encoder, the temporary file paths, the waveform file,
\* frames_recorded and audio_chunks_recorded unchanged: pause changes only
\* state and pause_time, resume changes only state, total_pause_duration and
\* pause_time.
C31_PauseResumeFrame ==
    [][ /\ Returns("pause")
           => UNCHANGED <<start_time, total_pause_duration, frames_recorded,
                          audio_chunks_recorded, last_frame, resources,
                          audio_queue, encoding, mixer>>
        /\ Returns("resume")
           => UNCHANGED <<start_time, frames_recorded, audio_chunks_recorded,
                          last_frame, resources, audio_queue, encoding, mixer>> ]_vars

\* A session with audio and a running loop thread has been paused and resumed.
C31_Witness ==
    /\ call.op = "resume" /\ call.result
    /\ total_pause_duration > 0
    /\ wave_file.obj /\ encoder.obj
    /\ recording_thread # 0 /\ threads[recording_thread].pc # "free"


\* The timing-loop thread t takes this step.
LoopStepOf(t) == threads'[t] # threads[t] /\ call' = call

\* The screen grab of thread t returns None in this step.
CaptureFails(t) == LoopStepOf(t) /\ threads[t].pc = "L311" /\ faults' > faults

WriteFails(t) ==
    /\ LoopStepOf(t)
    /\ threads[t].pc = "L333"
    /\ encoder.obj /\ ~WriteVideoFrameResult(encoder)

\* C33 (as the code has it): when the encoder pipe fails during a recording,
\* a failed frame write leaves the state alone and does not end the loop, but
\* it ends the catch-up burst and is not counted: frames_recorded stays at the
\* number of frames written before the failure for as long as the pipe is
\* broken.
C33_PipeFailure ==
    [][ /\ \A t \in ThreadIds :
              WriteFails(t) => /\ state' = state
                               /\ threads'[t].pc = "L339"
                               /\ frames_recorded' = frames_recorded
        /\ encoder.obj /\ encoder.process = "exited" /\ encoder'.obj
           => frames_recorded' = frames_recorded ]_vars

\* The pipe broke during a recording, a frame was captured and is owed, and
\* the loop has gone on to its audio step.
C33_Witness ==
    /\ state = RECORDING
    /\ encoder.obj /\ encoder.process = "exited"
    /\ last_frame # 0
    /\ frames_recorded < ExpectedFrames(now)
    /\ recording_thread # 0 /\ threads[recording_thread].pc = "L339"

\* C33 as stated: when frame writes return failure the session is not aborted
\* and the timing loop keeps advancing frames_recorded along the wall-clock
\* schedule.
C33_AsStated ==
    [][ \A t \in ThreadIds :
          WriteFails(t) => /\ state' = state
                           /\ frames_recorded' = frames_recorded + 1 ]_vars


\* ------------------------------------------------ stopping a catch-up burst
\* A session that began one tick ago, at the origin of the clock, so that up
\* to Fps frames are owed when the loop next looks at the time; everything else
\* is as start_recording() leaves it.
BurstInit ==
    /\ now = 1
    /\ state = RECORDING
    /\ start_time = 0
    /\ pause_time = NoTime
    /\ total_pause_duration = 0
    /\ frames_recorded = 0
    /\ audio_chunks_recorded = 0
    /\ last_frame = 0
    /\ encoder = StartedEncoder(NewEncoder(TempVideoPath(0)))
    /\ wave_file = [obj |-> TRUE, path |-> TempAudioPath(0)]
    /\ temp_video_path = TempVideoPath(0)
    /\ temp_audio_path = TempAudioPath(0)
    /\ recording_thread = 1
    /\ audio_capture = [system_audio_enabled |-> TRUE,
                        microphone_enabled |-> TRUE,
                        is_capturing |-> TRUE,
                        system_stream |-> TRUE,
                        microphone_stream |-> TRUE]
    /\ audio_queue = <<>>
    /\ files = [p \in {TempVideoPath(0), TempAudioPath(0)} |->
                    Content(IF p = TempVideoPath(0) THEN "video" ELSE "wav", 0, 0)]
    /\ threads = [t \in ThreadIds |-> IF t = 1 THEN At("L294") ELSE FreeThread]
    /\ call = Returned("start", IDLE, TRUE, <<RECORDING>>, "started")
    /\ faults = 0
    /\ callbacks = [source \in Sources |-> IdleCallback]
    /\ progress = <<>>
    /\ video_capture = FullScreenCapture
    /\ ffmpeg = [NoProcess EXCEPT !.status = "running", !.stdin = "open"]
    /\ writer = IdleWriter
    /\ stopper = IdleStopper
    /\ mixer = IdleMixer

\* The caller's thread and the timing loop keep running, and every screen grab
\* and every write into the pipe returns.
BurstSpec ==
    /\ BurstInit
    /\ [][StopNext]_vars
    /\ WF_vars(JoinStep)
    /\ WF_vars(CallStopEncoding)
    /\ WF_vars(StopEncodingStep)
    /\ WF_vars(FinishStep)
    /\ \A t \in ThreadIds : WF_vars(LoopStep(t))

\* C34: once stop_recording() has set the state to Idle, the timing loop
\* writes at most one further frame and then terminates, also in the middle of
\* a catch-up burst with frames still owed: while the state is Idle no thread
\* begins another write (only a write that had passed the test of line 330
\* can still be counted), and every loop thread ends.
C34_StopEndsBurst ==
    /\ [][ \A t \in ThreadIds :
              LoopStepOf(t) /\ state = IDLE
              => /\ threads'[t].pc # "L333"
                 /\ frames_recorded' # frames_recorded
                    => /\ threads[t].pc = "L333"
                       /\ frames_recorded' = frames_recorded + 1 ]_vars
    /\ (state = IDLE /\ call.op = "stop")
          ~> (\A t \in ThreadIds : threads[t].pc = "free")

\* stop_recording() was called in the middle of a burst: the loop has ended
\* with one frame written and at least two still owed.
C34_Witness ==
    /\ state = IDLE /\ call.op = "stop"
    /\ \A t \in ThreadIds : threads[t].pc = "free"
    /\ frames_recorded = 1
    /\ ExpectedFrames(call.at) >= 3
    /\ ffmpeg.returncode \in {NoCode, 0}


\* The file at the final output path is created, replaced or removed in this
\* step.
OutputChanged ==
    \/ (OutputPath \in DOMAIN files) # (OutputPath \in DOMAIN files')
    \/ /\ OutputPath \in DOMAIN files /\ OutputPath \in DOMAIN files'
       /\ files'[OutputPath] # files[OutputPath]

\* C35: from start until finalize the encoder is pointed at the temporary
\* video path only, and the final output path is created or modified only by
\* the finalize step of stop_recording(), never while the state is Recording or
\* Paused.
C35_TempPathOnly ==
    /\ [](state # IDLE \/ call.pc = "join"
            => /\ encoder.obj
               /\ encoder.output_path = temp_video_path
               /\ encoder.output_path[1] = "temp_video")
    /\ [][ OutputChanged
           => /\ state = IDLE /\ state' = IDLE
              /\ call.pc = "join" /\ Returns("stop") ]_vars

\* A recording with frames has been finalized: its video, merged or renamed,
\* is at the output path.
C35_Witness ==
    /\ call.op = "stop" /\ call.pc = "ret" /\ call.result
    /\ frames_recorded > 0
    /\ OutputPath \in DOMAIN files
    /\ files[OutputPath].kind \in {"video", "merged"}
    /\ files[OutputPath].id = start_time


\* stop_recording() returns in this step after its finalize (lines 203-244).
Finalizes == Returns("stop") /\ call.pc = "join"

\* The outcomes of finalize in which merge_audio_video() was called.
MergeOutcomes == {"merged", "fallback", "fallback_raised"}

\* C36 (as the code has it): if no mixed audio chunk was written during the
\* session, finalize never invokes the merge and, when the temporary video
\* exists and the rename does not fail, the output file is the temporary video
\* renamed; if at least one chunk was written, the merge is attempted provided
\* the temporary video exists.
C36_MergeIffAudio ==
    [][ Finalizes
        => /\ audio_chunks_recorded = 0
              => /\ call'.outcome \notin MergeOutcomes
                 /\ VideoExists(files)
                    => call'.outcome \in {"video_only", "video_only_raised"}
                 /\ call'.outcome = "video_only"
                    => /\ OutputPath \in DOMAIN files'
                       /\ files'[OutputPath] = files[temp_video_path]
                       /\ temp_video_path \notin DOMAIN files'
           /\ audio_chunks_recorded > 0 /\ VideoExists(files)
              => call'.outcome \in MergeOutcomes
           /\ ~VideoExists(files) => call'.outcome = "video_missing" ]_vars

\* A session with audio enabled, in which nothing failed and no chunk arrived,
\* has been saved as video only.
C36_Witness ==
    /\ call.op = "stop" /\ call.pc = "ret" /\ call.outcome = "video_only"
    /\ faults = 0
    /\ audio_capture.system_audio_enabled
    /\ audio_chunks_recorded = 0
    /\ frames_recorded > 0

\* C36 as stated: if no mixed audio chunk was written during the session,
\* finalize never invokes the merge and the output file is the temporary video
\* renamed; if at least one chunk was written, the merge is attempted.
C36_AsStated ==
    [][ Finalizes
        => /\ audio_chunks_recorded = 0
              => call'.outcome \in {"video_only", "video_only_raised"}
           /\ audio_chunks_recorded > 0
              => call'.outcome \in MergeOutcomes ]_vars


\* ------------------------------------------------- the audio step in detail
\* The samples of the chunks, and what lines 341-365 make of them.  A chunk is
\* (source, timestamp, audio_data) as the callbacks enqueue it, with audio_data
\* already scaled to 16 bits.
MaxSamples == 2         \* samples in a chunk
MaxQueued == 2          \* chunks the callbacks deliver

LevelChunks == 5        \* min(5, self.audio_queue.qsize())

SampleValues == {-32767, -3, 0, 32767}
AudioData == UNION {[1..n -> SampleValues] : n \in 1..MaxSamples}

\* astype(np.int16): the low 16 bits, as a signed number.
ToInt16(x) == ((x + 32768) % 65536) - 32768
\* astype(np.int32) of a 16-bit sample widens it and keeps its value; the sum
\* of two such values is within 32 bits.
ToInt32(x) == x

\* The mixing rule with the sum taken in 16 bits.
MixSample_Int16(a, b) == ToInt16(ToInt16(a + b) \div 2)

\* Lines 356-359: (a.astype(int32) + b.astype(int32)) // 2, stored into the
\* int16 array.  Python's // rounds toward minus infinity, as \div does.
MixSample(a, b) == ToInt16((ToInt32(a) + ToInt32(b)) \div 2)

\* A mix that is cut to the shorter of the two.
MixInto_Shorter(mixed_audio, audio_data) ==
    [i \in 1..Min(Len(mixed_audio), Len(audio_data)) |->
        MixSample(mixed_audio[i], audio_data[i])]

\* Lines 355-360: the first min_len samples of mixed_audio are replaced by the
\* mix, the rest of mixed_audio stays.
MixInto(mixed_audio, audio_data) ==
    LET min_len == Min(Len(mixed_audio), Len(audio_data))
    IN [i \in 1..Len(mixed_audio) |->
            IF i <= min_len THEN MixSample(mixed_audio[i], audio_data[i])
            ELSE mixed_audio[i]]

\* Lines 350-360: the loop over the dequeued chunks; the first chunk is copied.
RECURSIVE MixFrom(_, _)
MixFrom(mixed_audio, audio_chunks) ==
    IF audio_chunks = <<>> THEN mixed_audio
    ELSE MixFrom(MixInto(mixed_audio, Head(audio_chunks)[3]), Tail(audio_chunks))
MixedAudio(audio_chunks) == MixFrom(Head(audio_chunks)[3], Tail(audio_chunks))

\* A capture callback enqueues a chunk of its stream.
CallbackDelivers(source, audio_data) ==
    /\ IF source = "system" THEN audio_capture.system_stream
                            ELSE audio_capture.microphone_stream
    /\ audio_capture.is_capturing
    /\ Len(audio_queue) + mixer.taken < MaxQueued
    /\ audio_queue' = Enqueue(audio_queue, <<source, now, audio_data>>)
    /\ UNCHANGED <<now, session, last_frame, resources, call, faults,
                   callbacks, progress, video_capture, encoding, mixer>>

\* Lines 339-367 of the timing loop with chunks in the queue: up to DrainMax
\* chunks are dequeued, mixed into one block and written.
AudioStep ==
    LET n == Min(DrainMax, Len(audio_queue))
        audio_chunks == SubSeq(audio_queue, 1, n)
        mixed_audio == MixedAudio(audio_chunks)
    IN  /\ wave_file.obj
        /\ n > 0
        /\ audio_queue' = SubSeq(audio_queue, n + 1, Len(audio_queue))
        /\ files' = WaveWrite(files, wave_file.path)
        /\ audio_chunks_recorded' = audio_chunks_recorded + 1
        /\ mixer' = [audio_chunks |-> audio_chunks,
                     mixed |-> mixed_audio,
                     written |-> mixer.written \o mixed_audio,
                     taken |-> mixer.taken + n]
        /\ UNCHANGED <<now, state, start_time, pause_time, total_pause_duration,
                       frames_recorded, last_frame, encoder, wave_file,
                       temp_video_path, temp_audio_path, recording_thread,
                       audio_capture, threads, call, faults, callbacks,
                       progress, video_capture, encoding>>

\* AudioCapture.get_audio_levels: up to LevelChunks chunks are taken from the
\* queue with get_nowait() and not put back; the two levels go to the caller
\* and are kept nowhere.
get_audio_levels ==
    LET chunks_to_check == Min(LevelChunks, Len(audio_queue))
    IN  /\ audio_queue' = SubSeq(audio_queue, chunks_to_check + 1, Len(audio_queue))
        /\ mixer' = [mixer EXCEPT !.taken = @ + chunks_to_check]
        /\ chunks_to_check > 0
        /\ UNCHANGED <<now, session, last_frame, resources, call, faults,
                       callbacks, progress, video_capture, encoding>>

\* A session that records audio: the waveform file is open and at least one
\* of the two streams runs.
MixInit ==
    /\ now = 1
    /\ state = RECORDING
    /\ start_time = 1
    /\ pause_time = NoTime
    /\ total_pause_duration = 0
    /\ frames_recorded = 0
    /\ audio_chunks_recorded = 0
    /\ last_frame = 0
    /\ encoder = StartedEncoder(NewEncoder(TempVideoPath(0)))
    /\ wave_file = [obj |-> TRUE, path |-> TempAudioPath(0)]
    /\ temp_video_path = TempVideoPath(0)
    /\ temp_audio_path = TempAudioPath(0)
    /\ recording_thread = 1
    /\ \E sys, mic \in BOOLEAN :
          /\ sys \/ mic
          /\ audio_capture = [system_audio_enabled |-> sys,
                              microphone_enabled |-> mic,
                              is_capturing |-> TRUE,
                              system_stream |-> sys,
                              microphone_stream |-> mic]
    /\ audio_queue = <<>>
    /\ files = [p \in {TempVideoPath(0), TempAudioPath(0)} |->
                    Content(IF p = TempVideoPath(0) THEN "video" ELSE "wav", 1, 0)]
    /\ threads = [t \in ThreadIds |-> IF t = 1 THEN At("L339") ELSE FreeThread]
    /\ call = Returned("start", IDLE, TRUE, <<RECORDING>>, "started")
    /\ faults = 0
    /\ callbacks = [source \in Sources |-> IdleCallback]
    /\ progress = <<>>
    /\ video_capture = FullScreenCapture
    /\ ffmpeg = [NoProcess EXCEPT !.status = "running", !.stdin = "open"]
    /\ writer = IdleWriter
    /\ stopper = IdleStopper
    /\ mixer = IdleMixer

MixNext ==
    \/ \E source \in Sources, audio_data \in AudioData :
          CallbackDelivers(source, audio_data)
    \/ AudioStep
    \/ get_audio_levels

MixSpec == MixInit /\ [][MixNext]_vars


\* The latest audio step mixed exactly two chunks; First and Second are their
\* samples in arrival order.
MixedTwo == Len(mixer.audio_chunks) = 2
First == mixer.audio_chunks[1][3]
Second == mixer.audio_chunks[2][3]

C38_MixedSample ==
    MixedTwo
    => \A i \in 1..Min(Len(First), Len(Second)) :
          /\ First[i] + Second[i] - 2 * mixer.mixed[i] \in {0, 1}
          /\ mixer.mixed[i] \in -32768..32767

\* Samples with the sum -3 have been mixed, and so have two samples whose sum
\* does not fit in 16 bits.
C38_Witness ==
    /\ MixedTwo
    /\ Len(First) = 2 /\ Len(Second) = 2
    /\ First[1] + Second[1] = -3 /\ mixer.mixed[1] = -2
    /\ First[2] + Second[2] = 65534 /\ mixer.mixed[2] = 32767

\* C38 as stated: the mixed sample equals (a+b)/2 truncated toward zero (so
\* a+b = -3 gives -1), computed without 16-bit overflow and always within the
\* int16 range.
C38_AsStated ==
    MixedTwo
    => \A i \in 1..Min(Len(First), Len(Second)) :
          /\ mixer.mixed[i] = Trunc(First[i] + Second[i], 2)
          /\ mixer.mixed[i] \in -32768..32767

\* The samples of a list of chunks, one chunk after the other.
RECURSIVE Concatenation(_)
Concatenation(chunks) ==
    IF chunks = <<>> THEN <<>>
    ELSE Head(chunks)[3] \o Concatenation(Tail(chunks))

\* C39 as stated: when only one audio source is active, every chunk dequeued
\* by the timing loop is appended to the waveform file unaltered and in capture
\* order: successive chunks of the same source are never averaged with each
\* other, so the samples written equal the concatenation of the dequeued
\* chunks.
C39_AsStated ==
    audio_capture.system_stream # audio_capture.microphone_stream
    => mixer.mixed = Concatenation(mixer.audio_chunks)

\* C40 as stated: get_audio_levels() is a pure query of the audio queue:
\* calling it removes no chunk, so every chunk the recording loop would have
\* dequeued and written is still dequeued and written.
C40_AsStated ==
    [][ get_audio_levels => audio_queue' = audio_queue ]_vars

====
